---------------------------- MODULE Spec2Model ----------------------------
(***************************************************************************)
(* Model of the amazonComment review service: text cleaning               *)
(* (data_processing.clean_text), sentiment classification                 *)
(* (analyze_sentiment_simple, label_sentiment, process_review), model     *)
(* loading and response generation (generate_response), the handler of    *)
(* POST /analyse (main.analyser_avis) and the preparation of the training *)
(* data (core.data_manager.prepare_training_data).                        *)
(*                                                                         *)
(* A Python str is a sequence of code points.  A code point is written as *)
(* a one-character string when it is ASCII ("a", "!", " ") and as its     *)
(* Unicode name otherwise ("U+00E9" is e-acute, "U+1F60A" an emoji; the    *)
(* double quote, the backslash and the grave accent are written U+0022,   *)
(* U+005C and U+0060).                                                     *)
(* An Optional value is a sequence of length 0 (None) or 1.               *)
(***************************************************************************)
EXTENDS Integers, Sequences, FiniteSets, TLC

VARIABLES
    pc,               \* position of the process / of the call under study
    stopwords_fr,     \* data_processing.stopwords_fr (module global)
    ENABLE_AI_MODEL,  \* AIConfig.ENABLE_AI_MODEL
    tokenizer,        \* generate_response.tokenizer (Optional model name)
    model,            \* generate_response.model     (Optional model name)
    gen_pipe,         \* generate_response.gen_pipe  (Optional model name)
    ai_loaded,        \* generate_response.ai_loaded
    attempts,         \* load attempts made by load_ai_model, in order
    request,          \* the review under processing: [texte, note_numerique]
    processed,        \* result of process_review
    recleaned,        \* clean_text applied to processed.cleaned_text
    debug,            \* result of debug_clean_text
    other,            \* a second review and its process_review result
    reponse,          \* result of generer_reponse
    gen,              \* what the last generer_reponse call did
    env,              \* os.environ: the value of ENABLE_AI_MODEL (Optional str)
    http,             \* what the caller of POST /analyse receives
    training,         \* prepare_training_data: its argument and its result
    pipeline,         \* run_complete_pipeline: its arguments and its result
    seen              \* an answer of POST /analyse that its caller has kept

vars == <<pc, stopwords_fr, ENABLE_AI_MODEL, tokenizer, model, gen_pipe,
          ai_loaded, attempts, request, processed, recleaned, debug, other,
          reponse, gen, env, http, training, pipeline, seen>>

modelVars == <<ENABLE_AI_MODEL, tokenizer, model, gen_pipe, ai_loaded, attempts>>
reviewVars == <<request, processed, recleaned, debug, other>>
replyVars == <<reponse, gen>>
sideVars == <<env, http, training, pipeline, seen>>

---------------------------------------------------------------------------
(* Bounds of the model *)

\* longest review text, in chunks of TextChunks
MaxChunks == 2
\* longest text of the two reviews compared with each other
MaxPairChunks == 2

---------------------------------------------------------------------------
(* Characters *)

LowerAscii ==
    { "a", "b", "c", "d", "e", "f", "g", "h", "i", "j", "k", "l", "m",
      "n", "o", "p", "q", "r", "s", "t", "u", "v", "w", "x", "y", "z" }

Digits == { "0", "1", "2", "3", "4", "5", "6", "7", "8", "9" }

\* the accented letters of the character class kept by clean_text
FrenchAccents ==
    { "U+00E0", "U+00E2", "U+00E4", "U+00E9", "U+00E8", "U+00EA", "U+00EB", "U+00EE",
      "U+00EF", "U+00F4", "U+00F6", "U+00F9", "U+00FB", "U+00FC", "U+00E7" }

\* characters matched by \s
Whitespace == { " ", "\t", "\n" }

\* string.punctuation
Punctuation ==
    { "!", "U+0022", "#", "$", "%", "&", "'", "(", ")", "*", "+", ",", "-", ".", "/", ":",
      ";", "<", "=", ">", "?", "@", "[", "U+005C", "]", "^", "_", "U+0060", "{", "|", "}", "~" }

\* members of the character class of emoji_pattern: U+1F60A (emoticons),
\* U+1F680 (transport), U+2764 (dingbats, also in U+2600-U+2B55),
\* U+200D and U+FE0F (listed singly)
EmojiChars == { "U+1F60A", "U+1F680", "U+2764", "U+200D", "U+FE0F" }

\* str.lower() on one code point: A-Z and the upper-case accented letters
\* map to their lower-case letter, every other code point to itself
LowerOf ==
    ("A" :> "a") @@ ("B" :> "b") @@ ("C" :> "c") @@ ("D" :> "d") @@
    ("E" :> "e") @@ ("F" :> "f") @@ ("G" :> "g") @@ ("H" :> "h") @@
    ("I" :> "i") @@ ("J" :> "j") @@ ("K" :> "k") @@ ("L" :> "l") @@
    ("M" :> "m") @@ ("N" :> "n") @@ ("O" :> "o") @@ ("P" :> "p") @@
    ("Q" :> "q") @@ ("R" :> "r") @@ ("S" :> "s") @@ ("T" :> "t") @@
    ("U" :> "u") @@ ("V" :> "v") @@ ("W" :> "w") @@ ("X" :> "x") @@
    ("Y" :> "y") @@ ("Z" :> "z") @@ ("U+00C9" :> "U+00E9") @@ ("U+00C8" :> "U+00E8") @@
    ("U+00C7" :> "U+00E7") @@ ("U+00C0" :> "U+00E0")

LowerChar(c) == IF c \in DOMAIN LowerOf THEN LowerOf[c] ELSE c

\* str.lower(); SubSeq gives the result as a tuple
Lower(s) == SubSeq([i \in 1..Len(s) |-> LowerChar(s[i])], 1, Len(s))

RECURSIVE LStrip(_)
LStrip(s) ==
    IF s # <<>> /\ Head(s) \in Whitespace THEN LStrip(Tail(s)) ELSE s

RECURSIVE RStrip(_)
RStrip(s) ==
    IF s # <<>> /\ s[Len(s)] \in Whitespace
    THEN RStrip(SubSeq(s, 1, Len(s) - 1))
    ELSE s

\* str.strip()
Strip(s) == RStrip(LStrip(s))

\* s[i:].startswith(p)
StartsWith(s, i, p) ==
    /\ i + Len(p) - 1 <= Len(s)
    /\ SubSeq(s, i, i + Len(p) - 1) = p

\* the Python test (p in s) for two str
Contains(p, s) == \E i \in 1..(Len(s) + 1) : StartsWith(s, i, p)

Str(chars) == [kind |-> "str", chars |-> chars]

---------------------------------------------------------------------------
(* data_processing.clean_text *)

UrlPrefixes == << <<"h","t","t","p">>, <<"w","w","w">>, <<"h","t","t","p","s">> >>

\* the regular expression http\S+|www\S+|https\S+ matches at position i
UrlMatchAt(s, i) ==
    \E k \in 1..Len(UrlPrefixes) :
        /\ StartsWith(s, i, UrlPrefixes[k])
        /\ i + Len(UrlPrefixes[k]) <= Len(s)
        /\ s[i + Len(UrlPrefixes[k])] \notin Whitespace

\* last position of the run of non-whitespace characters that holds i
RECURSIVE RunEnd(_, _)
RunEnd(s, i) ==
    IF i < Len(s) /\ s[i + 1] \notin Whitespace THEN RunEnd(s, i + 1) ELSE i

\* mutant of RemoveUrls: the pattern lacks its first alternative, http\S+
RECURSIVE RemoveUrlsHttpsOnlyFrom(_, _)
RemoveUrlsHttpsOnlyFrom(s, i) ==
    IF i > Len(s) THEN <<>>
    ELSE IF /\ \E k \in 2..Len(UrlPrefixes) : StartsWith(s, i, UrlPrefixes[k])
            /\ UrlMatchAt(s, i)
         THEN RemoveUrlsHttpsOnlyFrom(s, RunEnd(s, i) + 1)
         ELSE <<s[i]>> \o RemoveUrlsHttpsOnlyFrom(s, i + 1)

RemoveUrlsHttpsOnly(s) == RemoveUrlsHttpsOnlyFrom(s, 1)

\* re.sub(r"http\S+|www\S+|https\S+", "", text): matches are found left to
\* right, each one greedy to the end of its run of non-whitespace
RECURSIVE RemoveUrlsFrom(_, _)
RemoveUrlsFrom(s, i) ==
    IF i > Len(s) THEN <<>>
    ELSE IF UrlMatchAt(s, i) THEN RemoveUrlsFrom(s, RunEnd(s, i) + 1)
    ELSE <<s[i]>> \o RemoveUrlsFrom(s, i + 1)

RemoveUrls(s) == RemoveUrlsFrom(s, 1)

NotEmoji(c) == c \notin EmojiChars

\* emoji_pattern.sub of the empty string
RemoveEmojis(s) == SelectSeq(s, NotEmoji)

NotPunctuation(c) == c \notin Punctuation

\* text.translate(str.maketrans("", "", string.punctuation))
RemovePunctuation(s) == SelectSeq(s, NotPunctuation)

KeptChars == LowerAscii \cup FrenchAccents \cup Digits \cup Whitespace

\* re.sub(r"[^a-z...0-9\s]", " ", text)
KeepFrench(s) ==
    SubSeq([i \in 1..Len(s) |-> IF s[i] \in KeptChars THEN s[i] ELSE " "], 1, Len(s))

\* str.split(): the maximal runs of non-whitespace characters
RECURSIVE SplitFrom(_, _)
SplitFrom(s, i) ==
    IF i > Len(s) THEN <<>>
    ELSE IF s[i] \in Whitespace THEN SplitFrom(s, i + 1)
    ELSE <<SubSeq(s, i, RunEnd(s, i))>> \o SplitFrom(s, RunEnd(s, i) + 1)

Split(s) == SplitFrom(s, 1)

\* " ".join(words)
RECURSIVE Join(_)
Join(words) ==
    IF words = <<>> THEN <<>>
    ELSE IF Len(words) = 1 THEN words[1]
    ELSE words[1] \o <<" ">> \o Join(Tail(words))

\* kept by the list comprehension of line 90
MinWordLen == 2

\* mutant of RemoveStopwords: short words are kept
RemoveStopwords_keep_short(s, stopwords) ==
    IF stopwords # {}
    THEN LET Keep(word) == word \notin stopwords
         IN  Join(SelectSeq(Split(s), Keep))
    ELSE s

\* lines 88-90
RemoveStopwords(s, stopwords) ==
    IF stopwords # {}
    THEN LET Keep(word) == word \notin stopwords /\ Len(word) > MinWordLen
         IN  Join(SelectSeq(Split(s), Keep))
    ELSE s

\* re.sub(r"\s+", " ", text): every run of whitespace becomes one space
RECURSIVE CollapseFrom(_, _)
CollapseFrom(s, i) ==
    IF i > Len(s) THEN <<>>
    ELSE IF s[i] \in Whitespace
         THEN IF i > 1 /\ s[i - 1] \in Whitespace
              THEN CollapseFrom(s, i + 1)
              ELSE <<" ">> \o CollapseFrom(s, i + 1)
         ELSE <<s[i]>> \o CollapseFrom(s, i + 1)

CollapseSpaces(s) == CollapseFrom(s, 1)

\* the text after lines 53-82: lower-cased, trimmed, URLs, emojis and
\* punctuation removed
Unpunctuated(chars) ==
    RemovePunctuation(RemoveEmojis(RemoveUrls(Strip(Lower(chars)))))

\* mutant of clean_text_with: the stopwords are removed before the
\* punctuation is
clean_text_stopwords_first(text, stopwords) ==
    IF text.kind # "str" \/ text.chars = <<>> THEN <<>>
    ELSE Strip(CollapseSpaces(KeepFrench(RemovePunctuation(RemoveEmojis(
             RemoveStopwords(RemoveUrls(Strip(Lower(text.chars))), stopwords))))))

\* mutant of clean_text_with: a value that is not a str is cleaned as
\* str(text)
clean_text_of_any(text, stopwords) ==
    LET chars == CASE text.kind = "str" -> text.chars
                   [] text.kind = "None" -> <<"N","o","n","e">>
                   [] OTHER -> <<"1","2","3">>
    IN  Strip(CollapseSpaces(
            RemoveStopwords(KeepFrench(Unpunctuated(chars)), stopwords)))

clean_text_with(text, stopwords) ==
    IF text.kind # "str" \/ text.chars = <<>> THEN <<>>
    ELSE Strip(CollapseSpaces(
             RemoveStopwords(KeepFrench(Unpunctuated(text.chars)), stopwords)))

\* TextProcessingConfig.BASIC_FRENCH_STOPWORDS
BASIC_FRENCH_STOPWORDS ==
    { <<"a","u">>, <<"a","u","s","s","i">>, <<"a","u","x">>, <<"a","v","e","c">>, <<"a","v","o","i","r">>,
      <<"b","i","e","n">>, <<"c","e">>, <<"c","e","s">>, <<"c","e","t","t","e">>, <<"c","o","m","m","e">>,
      <<"d","a","n","s">>, <<"d","e">>, <<"d","e","s">>, <<"d","e","u","x">>, <<"d","u">>,
      <<"e","n">>, <<"e","s","t">>, <<"e","t">>, <<"f","a","i","r","e">>, <<"f","a","i","t">>,
      <<"g","r","a","n","d">>, <<"i","l">>, <<"l","a">>, <<"l","e">>, <<"l","e","s">>,
      <<"l","e","u","r","s">>, <<"m","a","i","s">>, <<"n","e">>, <<"n","o","s">>, <<"o","n","t">>,
      <<"p","a","r">>, <<"p","a","s">>, <<"p","e","u","t">>, <<"p","l","u","s">>, <<"p","o","u","r">>,
      <<"q","u","e">>, <<"s","a","n","s">>, <<"s","e">>, <<"s","e","s">>, <<"s","o","n">>,
      <<"s","o","n","t">>, <<"s","u","r">>, <<"t","o","u","t">>, <<"t","r","U+00E8","s">>, <<"u","n">>,
      <<"u","n","e">>, <<"v","o","i","r">>, <<"v","o","s">>, <<"U+00E0">>, <<"U+00E9","t","a","i","t">>,
      <<"U+00EA","t","r","e">> }

\* set(stopwords.words("french")): the words of the NLTK list that the
\* review texts of this model can hold ("bien" is not in the NLTK list)
NLTK_FRENCH_STOPWORDS ==
    { <<"a","u">>, <<"a","v","e","c">>, <<"c","e">>, <<"d","a","n","s">>, <<"d","e">>,
      <<"d","e","s">>, <<"d","u">>, <<"e","n">>, <<"e","s","t">>, <<"e","t">>,
      <<"l","a">>, <<"l","e">>, <<"l","e","s">>, <<"m","a","i","s">>, <<"n","o","u","s">>,
      <<"p","a","s">>, <<"p","o","u","r">>, <<"q","u","e">>, <<"s","u","r">>, <<"u","n","e">>,
      <<"v","o","u","s">> }

\* the values initialize_nltk can give stopwords_fr
StopwordSets == { BASIC_FRENCH_STOPWORDS, NLTK_FRENCH_STOPWORDS }

\* clean_text reads the module global stopwords_fr
clean_text(text) == clean_text_with(text, stopwords_fr)

---------------------------------------------------------------------------
(* data_processing: sentiment classification *)

positive_keywords ==
    { <<"a","d","o","r","e">>, <<"b","i","e","n">>, <<"b","o","n">>,
      <<"c","o","n","t","e","n","t">>, <<"e","f","f","i","c","a","c","e">>,
      <<"e","n","c","h","a","n","t","U+00E9">>, <<"e","x","c","e","l","l","e","n","t">>,
      <<"e","x","t","r","a","o","r","d","i","n","a","i","r","e">>,
      <<"f","a","n","t","a","s","t","i","q","u","e">>, <<"f","o","r","m","i","d","a","b","l","e">>,
      <<"g","U+00E9","n","i","a","l">>, <<"h","e","u","r","e","u","x">>,
      <<"i","m","p","r","e","s","s","i","o","n","n","U+00E9">>,
      <<"i","n","c","r","o","y","a","b","l","e">>, <<"l","o","v","e">>,
      <<"m","a","g","n","i","f","i","q","u","e">>, <<"m","e","i","l","l","e","u","r">>,
      <<"m","e","r","v","e","i","l","l","e","u","x">>, <<"m","i","e","u","x">>,
      <<"p","a","r","f","a","i","t">>, <<"p","r","o","f","e","s","s","i","o","n","n","e","l">>,
      <<"q","u","a","l","i","t","U+00E9">>, <<"r","a","p","i","d","e">>, <<"r","a","v","i">>,
      <<"r","e","c","o","m","m","a","n","d","e">>, <<"r","e","m","a","r","q","u","a","b","l","e">>,
      <<"s","a","t","i","s","f","a","i","t">>, <<"s","u","p","e","r">>, <<"t","o","p">> }

negative_keywords ==
    { <<"a","b","U+00EE","m","U+00E9">>, <<"a","r","n","a","q","u","e">>, <<"c","a","s","s","U+00E9">>,
      <<"c","a","t","a","s","t","r","o","p","h","i","q","u","e">>,
      <<"c","a","u","c","h","e","m","a","r">>, <<"c","h","e","r">>,
      <<"d","U+00E9","c","e","v","a","n","t">>, <<"d","U+00E9","f","a","u","t">>,
      <<"d","U+00E9","t","e","s","t","e">>, <<"d","U+00E9","U+00E7","u">>,
      <<"e","r","r","e","u","r">>, <<"f","r","u","s","t","r","U+00E9">>,
      <<"f","U+00E2","c","h","U+00E9">>, <<"h","o","r","r","e","u","r">>,
      <<"h","o","r","r","i","b","l","e">>, <<"i","n","a","c","c","e","p","t","a","b","l","e">>,
      <<"i","n","a","d","m","i","s","s","i","b","l","e">>,
      <<"i","n","s","a","t","i","s","f","a","i","t">>, <<"l","e","n","t">>,
      <<"m","a","u","v","a","i","s">>, <<"m","U+00E9","c","o","n","t","e","n","t">>,
      <<"n","u","l">>, <<"p","i","r","e">>, <<"p","r","o","b","l","U+00E8","m","e">>,
      <<"r","e","g","r","e","t">>, <<"r","e","t","a","r","d">>, <<"s","c","a","n","d","a","l","e">>,
      <<"t","e","r","r","i","b","l","e">>, <<"v","o","l">>, <<"U+00E9","n","e","r","v","U+00E9">> }

\* mutant of KeywordCount: a keyword counts when it is a whole word of the text
KeywordCountWholeWords(keywords, text_lower) ==
    Cardinality({ word \in keywords :
                    \E i \in 1..Len(Split(text_lower)) : Split(text_lower)[i] = word })

\* sum(1 for word in keywords if word in text_lower)
KeywordCount(keywords, text_lower) ==
    Cardinality({ word \in keywords : Contains(word, text_lower) })

analyze_sentiment_simple(text) ==
    IF text = <<>> THEN "neutral"
    ELSE LET text_lower == Lower(text)
             positive_count == KeywordCount(positive_keywords, text_lower)
             negative_count == KeywordCount(negative_keywords, text_lower)
         IN  IF positive_count > negative_count /\ positive_count > 0
             THEN "positive"
             ELSE IF negative_count > positive_count /\ negative_count > 0
             THEN "negative"
             ELSE "neutral"

\* TextProcessingConfig.SENTIMENT_THRESHOLDS
SENTIMENT_THRESHOLDS == [positive |-> 3, negative |-> 2]

\* mutant of label_sentiment: strict comparison with the positive threshold
label_sentiment_strict(numeric_label) ==
    IF numeric_label > SENTIMENT_THRESHOLDS.positive THEN "positive"
    ELSE IF numeric_label < SENTIMENT_THRESHOLDS.negative THEN "negative"
    ELSE "neutral"

label_sentiment(numeric_label) ==
    IF numeric_label >= SENTIMENT_THRESHOLDS.positive THEN "positive"
    ELSE IF numeric_label < SENTIMENT_THRESHOLDS.negative THEN "negative"
    ELSE "neutral"

\* mutant of process_review: the rating is used only when the keyword
\* classifier finds nothing
process_review_text_first(text, numeric_rating) ==
    LET cleaned_text == clean_text(text)
        by_text == analyze_sentiment_simple(cleaned_text)
        sentiment == IF numeric_rating # <<>> /\ by_text = "neutral"
                     THEN label_sentiment(numeric_rating[1])
                     ELSE by_text
    IN  [ original_text |-> text,
          cleaned_text |-> cleaned_text,
          sentiment |-> sentiment,
          numeric_rating |-> numeric_rating ]

process_review(text, numeric_rating) ==
    LET cleaned_text == clean_text(text)
        sentiment == IF numeric_rating # <<>>
                     THEN label_sentiment(numeric_rating[1])
                     ELSE analyze_sentiment_simple(cleaned_text)
    IN  [ original_text |-> text,
          cleaned_text |-> cleaned_text,
          sentiment |-> sentiment,
          numeric_rating |-> numeric_rating ]

---------------------------------------------------------------------------
(* Inputs *)

\* AnalyseRequest.note_numerique: ge=1, le=5
MinRating == 1
MaxRating == 5

\* Optional[int]: None or a rating
Notes == { <<>> } \cup { <<r>> : r \in MinRating..MaxRating }

\* pieces review texts are made of: keywords of both sets ("excellent" holds
\* the negative keyword "lent"), upper case and accents, a stopword of both
\* lists ("le"), a stopword of the basic list that is a positive keyword
\* ("bien"), URL prefixes and pieces of them, punctuation, an emoji, a
\* letter outside the kept class (n-tilde) and whitespace
TextChunks ==
    { <<"b","o","n">>, <<"n","u","l">>, <<"e","x","c","e","l","l","e","n","t">>,
      <<"T","o","p">>, <<"D","U+00C9","U+00E7","u">>, <<"l","e">>, <<"b","i","e","n">>,
      <<"h","t","t","p">>, <<"h","t",".">>, <<"t","p","s">>, <<"w","w","w">>,
      <<"!">>, <<"U+1F60A">>, <<"U+00F1">>, <<" ">>, <<"\n">> }

RECURSIVE TextsUpTo(_)
TextsUpTo(n) ==
    IF n = 0 THEN { <<>> }
    ELSE LET shorter == TextsUpTo(n - 1)
         IN  shorter \cup { s \o c : s \in shorter, c \in TextChunks }

Texts == TextsUpTo(MaxChunks)

\* what a caller can pass as text: a str, None, or a value of another type
TextInputs ==
    { Str(t) : t \in Texts }
        \cup { [kind |-> "None", chars |-> <<>>], [kind |-> "int", chars |-> <<>>] }

\* pieces of the texts of two reviews compared with each other
PairChunks ==
    { <<"b","o","n">>, <<"n","u","l">>, <<"e","x","c","e","l","l","e","n","t">>,
      <<" ","l","e"," ">> }

RECURSIVE PairTextsUpTo(_)
PairTextsUpTo(n) ==
    IF n = 0 THEN { <<>> }
    ELSE LET shorter == PairTextsUpTo(n - 1)
         IN  shorter \cup { s \o c : s \in shorter, c \in PairChunks }

PairTexts == PairTextsUpTo(MaxPairChunks)

NoReview ==
    [ original_text |-> Str(<<>>), cleaned_text |-> <<>>,
      sentiment |-> "unset", numeric_rating |-> <<>> ]

NoRequest == [ texte |-> Str(<<>>), note_numerique |-> <<>> ]

NoOther == [ texte |-> Str(<<>>), processed |-> NoReview ]

NoDebug == [ original |-> <<>>, nettoye |-> <<>>, sentiment_simple |-> "unset" ]

NoReply == [ source |-> "unset", text |-> "" ]

NoGen ==
    [ texte |-> <<>>, sentiment |-> <<>>, steps |-> <<>>, inference |-> FALSE,
      raised |-> FALSE, response |-> <<>> ]

\* no request to /analyse has been answered
NoHttp == [ status |-> 0, body |-> <<>>, detail |-> "", log |-> "" ]

\* prepare_training_data has not been called
NoTraining == [ reviews_data |-> <<>>, training_pairs |-> <<>>, training_file |-> <<>> ]

\* run_complete_pipeline has not been called
NoPipeline == [ called |-> FALSE ]

---------------------------------------------------------------------------
(* Direct calls of the text functions *)

\* process_review(text, numeric_rating) called on the review
ProcessReview ==
    /\ pc = "input"
    /\ processed' = process_review(request.texte, request.note_numerique)
    /\ pc' = "processed"
    /\ UNCHANGED <<sideVars, stopwords_fr, modelVars, request, recleaned, debug, other, replyVars>>

\* clean_text called on a text it has already cleaned
CleanAgain ==
    /\ pc = "processed"
    /\ recleaned' = clean_text(Str(processed.cleaned_text))
    /\ pc' = "recleaned"
    /\ UNCHANGED <<sideVars, stopwords_fr, modelVars, request, processed, debug, other, replyVars>>

\* main.debug_clean_text: clean_text and analyze_sentiment_simple applied
\* to the raw text (texte: str)
DebugCleanText ==
    /\ pc = "input"
    /\ request.texte.kind = "str"
    /\ debug' = [ original |-> request.texte.chars,
                  nettoye |-> clean_text(request.texte),
                  sentiment_simple |-> analyze_sentiment_simple(request.texte.chars) ]
    /\ pc' = "debugged"
    /\ UNCHANGED <<sideVars, stopwords_fr, modelVars, request, processed, recleaned, other, replyVars>>

\* process_review called on a second review that has the same rating
ProcessOther ==
    /\ pc = "processed"
    /\ other' = [ other EXCEPT
                    !.processed = process_review(other.texte, request.note_numerique) ]
    /\ pc' = "both"
    /\ UNCHANGED <<sideVars, stopwords_fr, modelVars, request, processed, recleaned, debug, replyVars>>

ModelUnloaded ==
    /\ http = NoHttp
    /\ ENABLE_AI_MODEL = FALSE
    /\ tokenizer = <<>>
    /\ model = <<>>
    /\ gen_pipe = <<>>
    /\ ai_loaded = FALSE
    /\ attempts = <<>>

TextInit ==
    /\ pc = "input"
    /\ env = <<>>
    /\ training = NoTraining
    /\ pipeline = NoPipeline
    /\ seen = <<>>
    /\ stopwords_fr \in StopwordSets
    /\ request \in [ texte : TextInputs, note_numerique : Notes ]
    /\ processed = NoReview
    /\ recleaned = <<>>
    /\ debug = NoDebug
    /\ other = NoOther
    /\ reponse = NoReply
    /\ gen = NoGen
    /\ ModelUnloaded

TextNext == ProcessReview \/ CleanAgain \/ DebugCleanText

\* the text functions applied to every review of the bounded input set
SpecText == TextInit /\ [][TextNext]_vars

PairInit ==
    /\ pc = "input"
    /\ env = <<>>
    /\ training = NoTraining
    /\ pipeline = NoPipeline
    /\ seen = <<>>
    /\ stopwords_fr \in StopwordSets
    /\ request \in [ texte : { Str(t) : t \in PairTexts }, note_numerique : Notes ]
    /\ other \in [ texte : { Str(t) : t \in PairTexts }, processed : { NoReview } ]
    /\ processed = NoReview
    /\ recleaned = <<>>
    /\ debug = NoDebug
    /\ reponse = NoReply
    /\ gen = NoGen
    /\ ModelUnloaded

PairNext == ProcessReview \/ ProcessOther

\* process_review applied to two reviews that have the same rating
SpecPair == PairInit /\ [][PairNext]_vars

\* reviews whose text is one keyword of analyze_sentiment_simple
KeywordInit ==
    /\ pc = "input"
    /\ env = <<>>
    /\ training = NoTraining
    /\ pipeline = NoPipeline
    /\ seen = <<>>
    /\ stopwords_fr \in StopwordSets
    /\ request \in [ texte : { Str(k) : k \in positive_keywords \cup negative_keywords },
                      note_numerique : Notes ]
    /\ processed = NoReview
    /\ recleaned = <<>>
    /\ debug = NoDebug
    /\ other = NoOther
    /\ reponse = NoReply
    /\ gen = NoGen
    /\ ModelUnloaded

\* the text functions applied to every keyword
SpecKeyword == KeywordInit /\ [][TextNext]_vars

---------------------------------------------------------------------------
(* config.settings *)

\* mutant of EnableAiModelFrom: the flag is on unless it is switched off
EnableAiModelFrom_unless_off(environ) ==
    LET value == IF environ = <<>> THEN <<"t","r","u","e">> ELSE environ[1]
    IN  Lower(value) \notin { <<"0">>, <<"f","a","l","s","e">>, <<"n","o">> }

\* os.environ.get("ENABLE_AI_MODEL", "false").lower() in ("1", "true", "yes")
EnableAiModelFrom(environ) ==
    LET value == IF environ = <<>> THEN <<"f","a","l","s","e">> ELSE environ[1]
    IN  Lower(value) \in { <<"1">>, <<"t","r","u","e">>, <<"y","e","s">> }

\* values of the environment variable ENABLE_AI_MODEL: unset, or a str
EnvValues ==
    { <<>>, << <<"1">> >>, << <<"T","r","u","e">> >>,
      << <<"f","a","l","s","e">> >>, << <<"o","n">> >>, << <<>> >> }

\* AIConfig.FALLBACK_MODELS
FALLBACK_MODELS == << "distilgpt2", "gpt2", "microsoft/DialoGPT-small" >>

\* ResponseTemplates.POSITIVE (an accented letter is written as its base
\* letter: one character for one code point)
POSITIVE ==
    << "Merci beaucoup pour votre retour positif ! Nous sommes ravis que notre produit vous satisfasse. Votre satisfaction est notre priorite.",
       "Quel plaisir de lire votre commentaire ! Nous apprecions vraiment votre confiance et esperons continuer a vous satisfaire.",
       "Nous sommes enchantes de votre satisfaction ! Merci de partager votre experience positive avec nous." >>

\* ResponseTemplates.NEGATIVE
NEGATIVE ==
    << "Nous vous remercions pour votre retour et nous excusons sincerement pour les desagrements rencontres. Notre equipe va examiner votre cas avec attention.",
       "Votre experience nous tient a c_ur et nous regrettons que nos services n'aient pas ete a la hauteur de vos attentes. Nous travaillons a nous ameliorer.",
       "Nous prenons vos commentaires tres au serieux et nous nous engageons a trouver une solution rapide a votre probleme." >>

\* ResponseTemplates.NEUTRAL
NEUTRAL ==
    << "Merci pour votre retour constructif. Nous prenons tous les commentaires en consideration pour ameliorer continuellement nos services.",
       "Nous apprecions votre feedback equilibre qui nous aide a mieux comprendre les besoins de nos clients.",
       "Votre avis nous guide dans nos efforts d'amelioration continue. Merci de prendre le temps de nous faire part de vos observations." >>

---------------------------------------------------------------------------
(* generate_response: loading the model *)

\* the model found at TRAINED_MODEL_PATH
TRAINED_MODEL == "./models/amazon_trained"

\* ways one load attempt ends: the tokenizer fails to load, the model fails
\* to load, building the pipeline fails, or everything loads
LoadOutcomes == { "tokenizer_fails", "model_fails", "pipeline_fails", "ok" }

\* load_trained_model on the handles h = [tokenizer, model, gen_pipe,
\* attempts]; the pipeline is not built here
load_trained_model(h, path_exists, transformers, outcome) ==
    IF ~ path_exists THEN [ h |-> h, result |-> FALSE ]
    ELSE IF ~ transformers
    THEN [ h |-> h, result |-> FALSE ]
    ELSE LET tried == [ h EXCEPT !.attempts = Append(@, TRAINED_MODEL) ]
         IN  CASE outcome = "tokenizer_fails" ->
                    [ h |-> tried, result |-> FALSE ]
               [] outcome = "model_fails" ->
                    [ h |-> [ tried EXCEPT !.tokenizer = <<TRAINED_MODEL>> ],
                      result |-> FALSE ]
               [] OTHER ->
                    [ h |-> [ tried EXCEPT !.tokenizer = <<TRAINED_MODEL>>,
                                           !.model = <<TRAINED_MODEL>> ],
                      result |-> TRUE ]

\* mutant of LoadPretrained: a model that fails to load is tried a second
\* time before the next one
RECURSIVE LoadPretrained_retry(_, _, _)
LoadPretrained_retry(h, k, outcomes) ==
    IF k > Len(FALLBACK_MODELS) THEN [ h |-> h, result |-> FALSE ]
    ELSE LET model_name == FALLBACK_MODELS[k]
             tried == [ h EXCEPT !.attempts = Append(@, model_name) ]
         IN  IF outcomes[k] = "ok"
             THEN [ h |-> [ tried EXCEPT !.tokenizer = <<model_name>>,
                                         !.model = <<model_name>>,
                                         !.gen_pipe = <<model_name>> ],
                    result |-> TRUE ]
             ELSE LoadPretrained_retry(
                      [ tried EXCEPT !.attempts = Append(@, model_name) ],
                      k + 1, outcomes)

\* mutant of LoadPretrained: the pipeline is built as soon as the tokenizer
\* is loaded, before the model
RECURSIVE LoadPretrained_pipe_first(_, _, _)
LoadPretrained_pipe_first(h, k, outcomes) ==
    IF k > Len(FALLBACK_MODELS) THEN [ h |-> h, result |-> FALSE ]
    ELSE LET model_name == FALLBACK_MODELS[k]
             tried == [ h EXCEPT !.attempts = Append(@, model_name) ]
         IN  CASE outcomes[k] = "tokenizer_fails" ->
                    LoadPretrained_pipe_first(tried, k + 1, outcomes)
               [] outcomes[k] \in { "model_fails", "pipeline_fails" } ->
                    LoadPretrained_pipe_first(
                        [ tried EXCEPT !.tokenizer = <<model_name>>,
                                       !.gen_pipe = <<model_name>> ],
                        k + 1, outcomes)
               [] OTHER ->
                    [ h |-> [ tried EXCEPT !.tokenizer = <<model_name>>,
                                           !.model = <<model_name>>,
                                           !.gen_pipe = <<model_name>> ],
                      result |-> TRUE ]

\* the loop over AIConfig.FALLBACK_MODELS, from its k-th entry
RECURSIVE LoadPretrained(_, _, _)
LoadPretrained(h, k, outcomes) ==
    IF k > Len(FALLBACK_MODELS) THEN [ h |-> h, result |-> FALSE ]
    ELSE LET model_name == FALLBACK_MODELS[k]
             tried == [ h EXCEPT !.attempts = Append(@, model_name) ]
         IN  CASE outcomes[k] = "tokenizer_fails" ->
                    LoadPretrained(tried, k + 1, outcomes)
               [] outcomes[k] = "model_fails" ->
                    LoadPretrained([ tried EXCEPT !.tokenizer = <<model_name>> ],
                                   k + 1, outcomes)
               [] outcomes[k] = "pipeline_fails" ->
                    LoadPretrained([ tried EXCEPT !.tokenizer = <<model_name>>,
                                                  !.model = <<model_name>> ],
                                   k + 1, outcomes)
               [] OTHER ->
                    [ h |-> [ tried EXCEPT !.tokenizer = <<model_name>>,
                                           !.model = <<model_name>>,
                                           !.gen_pipe = <<model_name>> ],
                      result |-> TRUE ]

\* mutant of load_ai_model: the pretrained models are tried before the
\* trained model
load_ai_model_pretrained_first(h, enabled, path_exists, transformers, trained_outcome, outcomes) ==
    IF ~ enabled THEN [ h |-> h, result |-> FALSE ]
    ELSE IF ~ transformers THEN [ h |-> h, result |-> FALSE ]
    ELSE LET pretrained == LoadPretrained(h, 1, outcomes)
         IN  IF pretrained.result THEN pretrained
             ELSE load_trained_model(pretrained.h, path_exists, transformers,
                                     trained_outcome)

load_ai_model(h, enabled, path_exists, transformers, trained_outcome, outcomes) ==
    IF ~ enabled THEN [ h |-> h, result |-> FALSE ]
    ELSE LET trained == load_trained_model(h, path_exists, transformers, trained_outcome)
         IN  IF trained.result THEN trained
             ELSE IF ~ transformers THEN [ h |-> trained.h, result |-> FALSE ]
             ELSE LoadPretrained(trained.h, 1, outcomes)

---------------------------------------------------------------------------
(* generate_response: answering *)

\* the sentiment labels, as str
Positive == <<"p","o","s","i","t","i","v","e">>
Negative == <<"n","e","g","a","t","i","v","e">>
Neutral == <<"n","e","u","t","r","a","l">>

Labels == { Positive, Negative, Neutral }

\* sentiment arguments: the three labels and the French words of the
\* module's own test
Sentiments ==
    Labels \cup { <<"p","o","s","i","t","i","f">>, <<"n","e","g","a","t","i","f">>,
                  <<"N","e","u","t","r","e">> }

ContainsAny(words, s) == \E word \in words : Contains(word, s)

\* mutant of generate_fallback_response: the neutral test comes first and
\* also matches "ne"
generate_fallback_response_neutral_first(texte, sentiment, choice) ==
    LET templates ==
            IF ContainsAny({ <<"n","e">>, <<"m","i","x","e","d">> }, Lower(sentiment))
            THEN NEUTRAL
            ELSE IF ContainsAny({ <<"p","o","s","i","t","i","f">>, Positive,
                                  <<"g","o","o","d">>, <<"g","r","e","a","t">> },
                                Lower(sentiment))
            THEN POSITIVE
            ELSE NEGATIVE
    IN  [ source |-> "template", text |-> templates[choice] ]

\* random.choice(templates) is templates[choice]
generate_fallback_response(texte, sentiment, choice) ==
    LET templates ==
            IF ContainsAny({ <<"p","o","s","i","t","i","f">>, Positive,
                             <<"g","o","o","d">>, <<"g","r","e","a","t">> },
                           Lower(sentiment))
            THEN POSITIVE
            ELSE IF ContainsAny({ <<"n","e","u","t","r","e">>, Neutral,
                                  <<"m","i","x","e","d">> },
                                Lower(sentiment))
            THEN NEUTRAL
            ELSE NEGATIVE
    IN  [ source |-> "template", text |-> templates[choice] ]

\* the bounds of the length test of line 163
MinResponseLen == 15
MaxResponseLen == 300

\* f"Avis client: {texte}"
InputText(texte) ==
    <<"A","v","i","s"," ","c","l","i","e","n","t",":"," ">> \o texte

Filler(n) == SubSeq([i \in 1..n |-> "x"], 1, n)

\* what the model can do with the prompt: raise while it tokenises, generates
\* or decodes, or decode to a text that continues the prompt with n
\* characters between a space and a newline
GenerationLengths ==
    { 0, 1, MinResponseLen - 1, MinResponseLen, MinResponseLen + 1,
      MaxResponseLen - 1, MaxResponseLen, MaxResponseLen + 1 }

Generations ==
    { [ kind |-> k, length |-> 0 ] :
          k \in { "encode_raises", "generate_raises", "decode_raises" } }
        \cup { [ kind |-> "text", length |-> n ] : n \in GenerationLengths }

\* tokenizer.decode(outputs[0], skip_special_tokens=True)
GeneratedText(input_text, generation) ==
    input_text \o <<" ">> \o Filler(generation.length) \o <<"\n">>

\* generated_text[len(input_text):].strip()
ExtractResponse(generated_text, input_text) ==
    Strip(SubSeq(generated_text, Len(input_text) + 1, Len(generated_text)))

Answer(reply, steps, inference, raised, response) ==
    [ reponse |-> reply,
      gen |-> [ steps |-> steps, inference |-> inference, raised |-> raised,
                response |-> response ] ]

\* the body of generate_ai_response; the response is accepted when its
\* length is above low and below high
AiResponse(texte, sentiment, choice, generation, low, high) ==
    IF tokenizer = <<>> \/ model = <<>>
    THEN Answer(generate_fallback_response(texte, sentiment, choice),
                <<"generate_ai_response", "generate_fallback_response">>,
                FALSE, FALSE, <<>>)
    ELSE IF generation.kind # "text"
    THEN Answer(generate_fallback_response(texte, sentiment, choice),
                <<"generate_ai_response", generation.kind, "except",
                  "generate_fallback_response">>,
                TRUE, TRUE, <<>>)
    ELSE LET input_text == InputText(texte)
             response == ExtractResponse(GeneratedText(input_text, generation),
                                         input_text)
         IN  IF Len(response) > low /\ Len(response) < high
             THEN Answer([ source |-> "model", text |-> response ],
                         <<"generate_ai_response", "decoded", "return">>,
                         TRUE, FALSE, response)
             ELSE Answer(generate_fallback_response(texte, sentiment, choice),
                         <<"generate_ai_response", "decoded", "rejected",
                           "generate_fallback_response">>,
                         TRUE, FALSE, response)

\* mutant of generate_ai_response: the length test includes its bounds
generate_ai_response_inclusive(texte, sentiment, choice, generation) ==
    AiResponse(texte, sentiment, choice, generation,
               MinResponseLen - 1, MaxResponseLen + 1)

\* mutant of generate_ai_response: the decoded response is returned
\* without the lower bound of the length test
generate_ai_response_unvalidated(texte, sentiment, choice, generation) ==
    AiResponse(texte, sentiment, choice, generation, -1, MaxResponseLen)

\* mutant of generate_ai_response: an exception of the decoding is not caught
generate_ai_response_decode_uncaught(texte, sentiment, choice, generation) ==
    IF generation.kind = "decode_raises" /\ tokenizer # <<>> /\ model # <<>>
    THEN Answer([ source |-> "exception", text |-> "" ],
                <<"generate_ai_response", generation.kind>>, TRUE, TRUE, <<>>)
    ELSE AiResponse(texte, sentiment, choice, generation,
                    MinResponseLen, MaxResponseLen)

generate_ai_response(texte, sentiment, choice, generation) ==
    AiResponse(texte, sentiment, choice, generation, MinResponseLen, MaxResponseLen)

\* mutant of generer_reponse: generate_ai_response is called whatever the
\* flag and the pipeline are
generer_reponse_always_ai(texte, sentiment, choice, generation) ==
    generate_ai_response(texte, sentiment, choice, generation)

generer_reponse(texte, sentiment, choice, generation) ==
    IF ENABLE_AI_MODEL /\ gen_pipe # <<>>
    THEN generate_ai_response(texte, sentiment, choice, generation)
    ELSE Answer(generate_fallback_response(texte, sentiment, choice),
                <<"generate_fallback_response">>, FALSE, FALSE, <<>>)

---------------------------------------------------------------------------
(* main: the handler of POST /analyse *)

\* the str of a label returned by process_review
LabelChars(sentiment) ==
    CASE sentiment = "positive" -> Positive
      [] sentiment = "negative" -> Negative
      [] OTHER -> Neutral

\* the length under which a cleaned text gives a low confidence (line 123)
LowConfidenceLen == 10

\* mutant of confiance: the length of the cleaned text is looked at first
confiance_length_first(note_numerique, cleaned_text) ==
    IF Len(cleaned_text) < LowConfidenceLen THEN "faible"
    ELSE IF note_numerique # <<>> THEN "tres elevee"
    ELSE "elevee"

\* lines 119-124 (an accented letter is written as its base letter)
confiance(note_numerique, cleaned_text) ==
    IF note_numerique # <<>> THEN "tres elevee"
    ELSE IF Len(cleaned_text) < LowConfidenceLen THEN "faible"
    ELSE "elevee"

\* the detail of the HTTPException of lines 137-140
ERROR_DETAIL == "Erreur lors du traitement de l'avis. Veuillez reessayer."

\* mutant of HTTPException: the text of the exception is sent to the caller
HTTPException_with_cause(e) ==
    [ status |-> 500, body |-> <<>>, detail |-> e, log |-> e ]

\* lines 133-140: the exception e is printed and a 500 response is raised
HTTPException(e) ==
    [ status |-> 500, body |-> <<>>, detail |-> ERROR_DETAIL, log |-> e ]

\* lines 126-131
AnalyseResponse(sentiment, reply, texte_nettoye, confidence) ==
    [ status |-> 200,
      body |-> << [ sentiment |-> sentiment, reponse |-> reply,
                    texte_nettoye |-> texte_nettoye, confiance |-> confidence ] >>,
      detail |-> "", log |-> "" ]

\* the steps of the try block; a fault is the step that raises, if one does
AnalyseSteps == { "process_review", "generer_reponse", "AnalyseResponse" }
AnalyseFaults == { "none" } \cup AnalyseSteps

\* str(e) for the exception a step raises
ExceptionText(step) ==
    CASE step = "process_review" -> "MemoryError in process_review"
      [] step = "generer_reponse" -> "RuntimeError in generer_reponse"
      [] OTHER -> "ValidationError in AnalyseResponse"

\* generer_reponse was not called
NoAnswer == Answer(NoReply, <<>>, FALSE, FALSE, <<>>)

\* lines 126-140, once the reply is there
AnalyseReplied(req, review, answer, fault) ==
    [ processed |-> review, answer |-> answer,
      http |-> IF fault = "AnalyseResponse"
               THEN HTTPException(ExceptionText(fault))
               ELSE AnalyseResponse(review.sentiment, answer.reponse,
                                    review.cleaned_text,
                                    confiance(req.note_numerique,
                                              review.cleaned_text)) ]

\* lines 116-140, once process_review has returned
AnalyseProcessed(req, review, choice, generation, fault) ==
    IF fault = "generer_reponse"
    THEN [ processed |-> review, answer |-> NoAnswer,
           http |-> HTTPException(ExceptionText(fault)) ]
    ELSE AnalyseReplied(req, review,
                        generer_reponse(review.cleaned_text,
                                        LabelChars(review.sentiment),
                                        choice, generation),
                        fault)

\* the body of analyser_avis, lines 112-140
analyser_avis(req, choice, generation, fault) ==
    IF fault = "process_review"
    THEN [ processed |-> NoReview, answer |-> NoAnswer,
           http |-> HTTPException(ExceptionText(fault)) ]
    ELSE AnalyseProcessed(req, process_review(req.texte, req.note_numerique),
                          choice, generation, fault)

---------------------------------------------------------------------------
(* The service: start-up, then calls of generer_reponse and requests *)

\* import of config.settings: the flag is read from the environment
LoadSettings ==
    /\ pc = "start"
    /\ ENABLE_AI_MODEL' = EnableAiModelFrom(env)
    /\ pc' = "settings"
    /\ UNCHANGED <<sideVars, stopwords_fr, tokenizer, model, gen_pipe, ai_loaded, attempts,
                   reviewVars, replyVars>>

\* import of generate_response: ai_loaded = load_ai_model()
LoadAiModel ==
    /\ pc = "settings"
    /\ \E path_exists \in BOOLEAN, transformers \in BOOLEAN,
          trained_outcome \in LoadOutcomes \ {"pipeline_fails"},
          outcomes \in [1..Len(FALLBACK_MODELS) -> LoadOutcomes] :
          \E loaded \in { load_ai_model(
                            [ tokenizer |-> tokenizer, model |-> model,
                              gen_pipe |-> gen_pipe, attempts |-> attempts ],
                            ENABLE_AI_MODEL, path_exists, transformers,
                            trained_outcome, outcomes) } :
              /\ tokenizer' = loaded.h.tokenizer
              /\ model' = loaded.h.model
              /\ gen_pipe' = loaded.h.gen_pipe
              /\ attempts' = loaded.h.attempts
              /\ ai_loaded' = loaded.result
    /\ pc' = "model"
    /\ UNCHANGED <<sideVars, stopwords_fr, ENABLE_AI_MODEL, reviewVars, replyVars>>

\* import of data_processing: initialize_nltk()
InitializeNltk ==
    /\ pc = "model"
    /\ \E nltk \in { "unavailable", "error", "ok" } :
          stopwords_fr' = IF nltk = "ok" THEN NLTK_FRENCH_STOPWORDS
                          ELSE BASIC_FRENCH_STOPWORDS
    /\ pc' = "ready"
    /\ UNCHANGED <<sideVars, modelVars, reviewVars, replyVars>>

\* texts passed to generer_reponse
ReplyTexts == { <<>>, <<"T","e","s","t">> }

\* mutant of GenererReponse: a call made while the flag is on and no
\* pipeline is loaded builds one
GenererReponse_lazy_load ==
    /\ pc = "ready"
    /\ \E texte \in ReplyTexts, sentiment \in Sentiments,
          choice \in 1..Len(POSITIVE), generation \in Generations :
          \E answer \in { generer_reponse(texte, sentiment, choice, generation) } :
              /\ reponse' = answer.reponse
              /\ gen' = [ texte |-> texte, sentiment |-> sentiment ] @@ answer.gen
    /\ gen_pipe' = IF ENABLE_AI_MODEL /\ gen_pipe = <<>>
                   THEN <<FALLBACK_MODELS[1]>> ELSE gen_pipe
    /\ pc' = "replied"
    /\ UNCHANGED <<sideVars, stopwords_fr, ENABLE_AI_MODEL, tokenizer, model,
                   ai_loaded, attempts, reviewVars>>

\* a call generer_reponse(texte, sentiment); the result of the call is
\* bound once, as the only member of a set
GenererReponse ==
    /\ pc = "ready"
    /\ \E texte \in ReplyTexts, sentiment \in Sentiments,
          choice \in 1..Len(POSITIVE), generation \in Generations :
          \E answer \in { generer_reponse(texte, sentiment, choice, generation) } :
              /\ reponse' = answer.reponse
              /\ gen' = [ texte |-> texte, sentiment |-> sentiment ] @@ answer.gen
    /\ pc' = "replied"
    /\ UNCHANGED <<sideVars, stopwords_fr, modelVars, reviewVars>>

\* AnalyseRequest.texte (1 to 2000 characters): cleaned texts of 9, 10, 0
\* and 3 characters, and a word that only one of the stopword lists holds
AnalyseTexts ==
    { <<"b","o","n"," ","a","c","h","a","t">>,
      <<"B","o","n"," ","a","c","h","a","t","s"," ","!">>,
      <<"l","e">>, <<"N","u","l">>, <<"B","i","e","n">> }

\* what the model does when a request reaches it
AnalyseGenerations ==
    { [ kind |-> "encode_raises", length |-> 0 ],
      [ kind |-> "text", length |-> MinResponseLen + 1 ],
      [ kind |-> "text", length |-> MaxResponseLen ] }

\* mutant of AnalyserAvis: the handler initialises the stopwords again,
\* with whatever list the attempt gives
AnalyserAvis_reloading_stopwords ==
    /\ pc = "ready"
    /\ \E texte \in AnalyseTexts, note_numerique \in Notes,
          choice \in 1..Len(POSITIVE), generation \in AnalyseGenerations,
          fault \in AnalyseFaults :
          \E req \in { [ texte |-> Str(texte), note_numerique |-> note_numerique ] } :
          \E done \in { analyser_avis(req, choice, generation, fault) } :
              /\ request' = req
              /\ processed' = done.processed
              /\ reponse' = done.answer.reponse
              /\ gen' = IF done.answer = NoAnswer THEN NoGen
                        ELSE [ texte |-> done.processed.cleaned_text,
                               sentiment |-> LabelChars(done.processed.sentiment) ]
                                 @@ done.answer.gen
              /\ http' = done.http
    /\ stopwords_fr' \in StopwordSets
    /\ pc' = "analysed"
    /\ UNCHANGED <<env, training, pipeline, seen, modelVars, recleaned,
                   debug, other>>

\* a request POST /analyse that passed the validation of AnalyseRequest
AnalyserAvis ==
    /\ pc = "ready"
    /\ \E texte \in AnalyseTexts, note_numerique \in Notes,
          choice \in 1..Len(POSITIVE), generation \in AnalyseGenerations,
          fault \in AnalyseFaults :
          \E req \in { [ texte |-> Str(texte), note_numerique |-> note_numerique ] } :
          \E done \in { analyser_avis(req, choice, generation, fault) } :
              /\ request' = req
              /\ processed' = done.processed
              /\ reponse' = done.answer.reponse
              /\ gen' = IF done.answer = NoAnswer THEN NoGen
                        ELSE [ texte |-> done.processed.cleaned_text,
                               sentiment |-> LabelChars(done.processed.sentiment) ]
                                 @@ done.answer.gen
              /\ http' = done.http
    /\ pc' = "analysed"
    /\ UNCHANGED <<env, training, pipeline, seen, stopwords_fr, modelVars, recleaned,
                   debug, other>>

\* APIConfig.VERSION
VERSION == "1.0.0"

\* HealthResponse(status, version, mode) of GET /health
health_check(enabled) ==
    [ status |-> "healthy",
      version |-> VERSION,
      mode |-> IF enabled THEN "ai" ELSE "fallback" ]

\* a request GET /health
HealthCheck ==
    /\ pc = "ready"
    /\ http' = [ status |-> 200, body |-> << health_check(ENABLE_AI_MODEL) >>,
                 detail |-> "", log |-> "" ]
    /\ pc' = "health"
    /\ UNCHANGED <<env, training, pipeline, seen, stopwords_fr, modelVars,
                   reviewVars, replyVars>>

\* the caller has its reply; the process waits for the next call
Return ==
    /\ pc \in { "replied", "analysed", "health" }
    /\ request' = NoRequest
    /\ processed' = NoReview
    /\ reponse' = NoReply
    /\ gen' = NoGen
    /\ http' = NoHttp
    /\ pc' = "ready"
    /\ UNCHANGED <<env, training, pipeline, seen, stopwords_fr, modelVars, recleaned,
                   debug, other>>

Init ==
    /\ pc = "start"
    /\ env \in EnvValues
    /\ training = NoTraining
    /\ pipeline = NoPipeline
    /\ seen = <<>>
    /\ stopwords_fr = {}
    /\ ModelUnloaded
    /\ request = NoRequest
    /\ processed = NoReview
    /\ recleaned = <<>>
    /\ debug = NoDebug
    /\ other = NoOther
    /\ reponse = NoReply
    /\ gen = NoGen

Next ==
    \/ LoadSettings
    \/ LoadAiModel
    \/ InitializeNltk
    \/ GenererReponse
    \/ AnalyserAvis
    \/ HealthCheck
    \/ Return

Spec == Init /\ [][Next]_vars

\* the caller of POST /analyse keeps the analysis it received (the request
\* and the sentiment, texte_nettoye and confiance of the response); the
\* process waits for the next request
KeepAnswer ==
    /\ pc = "analysed"
    /\ http.status = 200
    /\ seen' = << [ texte |-> request.texte,
                    note_numerique |-> request.note_numerique,
                    sentiment |-> http.body[1].sentiment,
                    texte_nettoye |-> http.body[1].texte_nettoye,
                    confiance |-> http.body[1].confiance ] >>
    /\ request' = NoRequest
    /\ processed' = NoReview
    /\ reponse' = NoReply
    /\ gen' = NoGen
    /\ http' = NoHttp
    /\ pc' = "ready"
    /\ UNCHANGED <<env, training, pipeline, stopwords_fr, modelVars, recleaned,
                   debug, other>>

\* the process after its start-up: in fallback mode, or with the first
\* pretrained model loaded
RequestsInit ==
    /\ pc = "ready"
    /\ stopwords_fr \in StopwordSets
    /\ \/ /\ env = <<>>
          /\ ModelUnloaded
       \/ /\ env = << <<"1">> >>
          /\ http = NoHttp
          /\ ENABLE_AI_MODEL = TRUE
          /\ tokenizer = << FALLBACK_MODELS[1] >>
          /\ model = << FALLBACK_MODELS[1] >>
          /\ gen_pipe = << FALLBACK_MODELS[1] >>
          /\ ai_loaded = TRUE
          /\ attempts = << FALLBACK_MODELS[1] >>
    /\ training = NoTraining
    /\ pipeline = NoPipeline
    /\ seen = <<>>
    /\ request = NoRequest
    /\ processed = NoReview
    /\ recleaned = <<>>
    /\ debug = NoDebug
    /\ other = NoOther
    /\ reponse = NoReply
    /\ gen = NoGen

RequestsNext ==
    \/ AnalyserAvis
    \/ HealthCheck
    \/ KeepAnswer
    \/ Return

\* requests served one after the other, in any order and number
SpecRequests == RequestsInit /\ [][RequestsNext]_vars

---------------------------------------------------------------------------
(* utils.common and core.data_manager: the training data *)

\* bound of the model: the longest list of reviews
MaxReviews == 2

\* the defaults min_length=1, max_length=2000 of validate_text_input
DefaultMinLength == 1
DefaultMaxLength == 2000

validate_text_input(text, min_length, max_length) ==
    IF text.kind # "str" \/ text.chars = <<>> THEN FALSE
    ELSE LET stripped == Strip(text.chars)
         IN  IF Len(stripped) < min_length THEN FALSE
             ELSE IF Len(stripped) > max_length THEN FALSE
             ELSE TRUE

\* a rating is a value of some type; a number is held in tenths
Number(kind, tenths) == [ kind |-> kind, tenths |-> tenths ]
Tenths(n) == 10 * n

validate_rating(rating) ==
    IF rating.kind \notin { "int", "float" } THEN FALSE
    ELSE IF rating.tenths < Tenths(1) \/ rating.tenths > Tenths(5) THEN FALSE
    ELSE TRUE

\* the replies of lines 122, 125 and 128
TRAINING_RESPONSES ==
    [ positive |-> "Merci beaucoup pour votre retour positif ! Nous sommes ravis que le produit vous satisfasse pleinement.",
      negative |-> "Nous sommes desoles que le produit n'ait pas repondu a vos attentes. Contactez notre service client pour une solution.",
      neutral |-> "Merci pour votre retour. Nous prenons note de vos commentaires pour ameliorer nos produits." ]

\* mutant of TrainingSentiment: the rule of label_sentiment
TrainingSentimentByThresholds(rating) ==
    IF rating.tenths >= Tenths(SENTIMENT_THRESHOLDS.positive) THEN "positive"
    ELSE IF rating.tenths < Tenths(SENTIMENT_THRESHOLDS.negative) THEN "negative"
    ELSE "neutral"

\* lines 120-128
TrainingSentiment(rating) ==
    IF rating.tenths >= Tenths(4) THEN "positive"
    ELSE IF rating.tenths <= Tenths(2) THEN "negative"
    ELSE "neutral"

\* lines 130-136
TrainingPair(review) ==
    LET sentiment == TrainingSentiment(review.rating)
    IN  [ input |-> InputText(review.review_text.chars),
          output |-> TRAINING_RESPONSES[sentiment],
          sentiment |-> sentiment,
          rating |-> review.rating,
          source |-> IF review.source = <<>> THEN "unknown" ELSE review.source[1] ]

\* the loop of lines 108-136, from the k-th review
RECURSIVE PreparePairs(_, _)
PreparePairs(reviews_data, k) ==
    IF k > Len(reviews_data) THEN <<>>
    ELSE LET review == reviews_data[k]
             text_valid == validate_text_input(review.review_text,
                                               DefaultMinLength, DefaultMaxLength)
             rating_valid == validate_rating(review.rating)
         IN  IF ~ text_valid \/ ~ rating_valid
             THEN PreparePairs(reviews_data, k + 1)
             ELSE <<TrainingPair(review)>> \o PreparePairs(reviews_data, k + 1)

\* prepare_training_data(reviews_data) for a list of reviews
prepare_training_data(reviews_data) == PreparePairs(reviews_data, 1)

\* review texts: None, a number, and str that are empty, blank, of trimmed
\* length 1, short, and around the longest valid length
TrainTexts ==
    { [kind |-> "None", chars |-> <<>>], [kind |-> "int", chars |-> <<>>],
      Str(<<>>), Str(<<" ">>), Str(<<" ","a","\n">>), Str(<<"T","o","p">>),
      Str(Filler(DefaultMaxLength)), Str(Filler(DefaultMaxLength + 1)),
      Str(<<" ">> \o Filler(DefaultMaxLength)) }

\* ratings: the integers 0 to 6, the floats 0.9, 2.5, 3.5, 4.5, 5.0 and 5.1,
\* the str "5" and None
TrainRatings ==
    { Number("int", Tenths(n)) : n \in 0..6 }
        \cup { Number("float", t) : t \in { 9, 25, 35, 45, 50, 51 } }
        \cup { Number("str", Tenths(5)), Number("None", 0) }

\* reviews: every text with 5 stars, every rating with a short text
TrainReviews ==
    { [ review_text |-> t, rating |-> Number("int", Tenths(5)), source |-> <<"test">> ] :
          t \in TrainTexts }
        \cup { [ review_text |-> Str(<<"T","o","p">>), rating |-> r, source |-> <<>> ] :
                  r \in TrainRatings }

RECURSIVE ReviewListsUpTo(_)
ReviewListsUpTo(n) ==
    IF n = 0 THEN { <<>> }
    ELSE LET shorter == ReviewListsUpTo(n - 1)
         IN  shorter \cup { Append(l, r) : l \in shorter, r \in TrainReviews }

\* a call prepare_training_data(reviews_data); safe_json_dump writes the
\* pairs to training_file unless the write fails
PrepareTrainingData ==
    /\ pc = "input"
    /\ \E written \in BOOLEAN :
       \E pairs \in { prepare_training_data(training.reviews_data) } :
          training' = [ training EXCEPT
                          !.training_pairs = pairs,
                          !.training_file = IF written THEN <<pairs>> ELSE @ ]
    /\ pc' = "prepared"
    /\ UNCHANGED <<env, http, pipeline, seen, stopwords_fr, modelVars, reviewVars,
                   replyVars>>

TrainInit ==
    /\ pc = "input"
    /\ env = <<>>
    /\ stopwords_fr = BASIC_FRENCH_STOPWORDS
    /\ pipeline = NoPipeline
    /\ seen = <<>>
    /\ training \in { [ reviews_data |-> l, training_pairs |-> <<>>,
                        training_file |-> <<>> ] : l \in ReviewListsUpTo(MaxReviews) }
    /\ request = NoRequest
    /\ processed = NoReview
    /\ recleaned = <<>>
    /\ debug = NoDebug
    /\ other = NoOther
    /\ reponse = NoReply
    /\ gen = NoGen
    /\ ModelUnloaded

TrainNext == PrepareTrainingData

\* prepare_training_data applied to every list of the bounded input set
SpecTrain == TrainInit /\ [][TrainNext]_vars

---------------------------------------------------------------------------
(* core.data_manager and core.training_manager: the training pipeline *)

\* bound of the model: the number of rows of the Hugging Face train split
HfSize == 3

\* one review of create_synthetic_data
Synthetic(text, stars) ==
    [ review_text |-> Str(text), rating |-> Number("int", Tenths(stars)),
      source |-> <<"synthetic">> ]

\* the list of lines 63-85
create_synthetic_data ==
    << Synthetic(<< "P","r","o","d","u","i","t"," ","a","b","s","o","l","u","m","e",
           "n","t"," ","f","a","n","t","a","s","t","i","q","u","e"," ","!",
           " ","T","r","U+00E8","s"," ","s","a","t","i","s","f","a","i","t"," ",
           "d","e"," ","m","o","n"," ","a","c","h","a","t",","," ","j","e",
           " ","l","e"," ","r","e","c","o","m","m","a","n","d","e"," ","v",
           "i","v","e","m","e","n","t"," ","U+00E0"," ","t","o","u","s","." >>,
              5),
       Synthetic(<< "E","x","c","e","l","l","e","n","t","e"," ","q","u","a","l","i",
           "t","U+00E9",","," ","l","i","v","r","a","i","s","o","n"," ","r","a",
           "p","i","d","e","."," ","C","o","n","f","o","r","m","e"," ","U+00E0",
           " ","m","e","s"," ","a","t","t","e","n","t","e","s",","," ","t",
           "r","U+00E8","s"," ","b","o","n"," ","r","a","p","p","o","r","t"," ",
           "q","u","a","l","i","t","U+00E9","-","p","r","i","x","." >>,
              5),
       Synthetic(<< "T","r","U+00E8","s"," ","b","o","n"," ","p","r","o","d","u","i","t",
           ","," ","b","i","e","n"," ","e","m","b","a","l","l","U+00E9","."," ",
           "S","e","r","v","i","c","e"," ","c","l","i","e","n","t"," ","r",
           "U+00E9","a","c","t","i","f","."," ","J","e"," ","r","e","c","o","m",
           "m","a","n","d","e"," ","c","e","t","t","e"," ","m","a","r","q",
           "u","e","." >>,
              4),
       Synthetic(<< "S","a","t","i","s","f","a","i","t"," ","d","e"," ","c","e","t",
           " ","a","c","h","a","t","."," ","P","r","o","d","u","i","t"," ",
           "s","o","l","i","d","e"," ","e","t"," ","b","i","e","n"," ","f",
           "i","n","i","."," ","L","i","v","r","a","i","s","o","n"," ","d",
           "a","n","s"," ","l","e","s"," ","t","e","m","p","s","." >>,
              4),
       Synthetic(<< "S","u","p","e","r"," ","p","r","o","d","u","i","t"," ","!"," ",
           "E","x","a","c","t","e","m","e","n","t"," ","c","e"," ","q","u",
           "e"," ","j","e"," ","c","h","e","r","c","h","a","i","s","."," ",
           "M","e","r","c","i"," ","p","o","u","r"," ","l","a"," ","r","a",
           "p","i","d","i","t","U+00E9"," ","d","'","e","x","p","U+00E9","d","i","t",
           "i","o","n","." >>,
              5),
       Synthetic(<< "B","o","n","n","e"," ","q","u","a","l","i","t","U+00E9",","," ","c",
           "o","n","f","o","r","m","e"," ","U+00E0"," ","l","a"," ","d","e","s",
           "c","r","i","p","t","i","o","n","."," ","P","r","i","x"," ","c",
           "o","r","r","e","c","t"," ","p","o","u","r"," ","c","e"," ","t",
           "y","p","e"," ","d","e"," ","p","r","o","d","u","i","t","." >>,
              4),
       Synthetic(<< "T","r","U+00E8","s"," ","d","U+00E9","U+00E7","u"," ","d","e"," ","c","e","t",
           " ","a","c","h","a","t","."," ","Q","u","a","l","i","t","U+00E9"," ",
           "m","U+00E9","d","i","o","c","r","e",","," ","n","e"," ","c","o","r",
           "r","e","s","p","o","n","d"," ","p","a","s"," ","U+00E0"," ","l","a",
           " ","d","e","s","c","r","i","p","t","i","o","n","." >>,
              2),
       Synthetic(<< "P","r","o","d","u","i","t"," ","d","U+00E9","f","e","c","t","u","e",
           "u","x"," ","d","U+00E8","s"," ","l","a"," ","p","r","e","m","i","U+00E8",
           "r","e"," ","u","t","i","l","i","s","a","t","i","o","n","."," ",
           "S","e","r","v","i","c","e"," ","c","l","i","e","n","t"," ","n",
           "o","n"," ","r","U+00E9","a","c","t","i","f","."," ","U+00C0"," ","U+00E9","v",
           "i","t","e","r","." >>,
              1),
       Synthetic(<< "M","a","u","v","a","i","s","e"," ","q","u","a","l","i","t","U+00E9",
           ","," ","m","a","t","U+00E9","r","i","a","u","x"," ","c","h","e","a",
           "p","."," ","P","h","o","t","o","s"," ","t","r","o","m","p","e",
           "u","s","e","s"," ","s","u","r"," ","l","e"," ","s","i","t","e",
           "."," ","D","U+00E9","U+00E7","u","." >>,
              1),
       Synthetic(<< "P","a","s"," ","t","e","r","r","i","b","l","e"," ","d","u"," ",
           "t","o","u","t","."," ","L","i","v","r","a","i","s","o","n"," ",
           "e","n"," ","r","e","t","a","r","d"," ","e","t"," ","p","r","o",
           "d","u","i","t"," ","a","b","U+00EE","m","U+00E9","."," ","D","e","m","a",
           "n","d","e"," ","d","e"," ","r","e","m","b","o","u","r","s","e",
           "m","e","n","t","." >>,
              2),
       Synthetic(<< "N","'","a","c","h","e","t","e","z"," ","p","a","s"," ","c","e",
           " ","p","r","o","d","u","i","t"," ","!"," ","A","r","n","a","q",
           "u","e"," ","t","o","t","a","l","e",","," ","r","i","e","n"," ",
           "n","e"," ","f","o","n","c","t","i","o","n","n","e"," ","c","o",
           "m","m","e"," ","a","n","n","o","n","c","U+00E9","." >>,
              1),
       Synthetic(<< "Q","u","a","l","i","t","U+00E9"," ","d","U+00E9","c","e","v","a","n","t",
           "e"," ","p","o","u","r"," ","l","e"," ","p","r","i","x"," ","p",
           "a","y","U+00E9","."," ","A","t","t","e","n","t","i","o","n"," ","a",
           "u","x"," ","a","v","i","s"," ","b","i","d","o","n","s",","," ",
           "n","e"," ","v","o","u","s"," ","f","i","e","z"," ","p","a","s",
           "." >>,
              2),
       Synthetic(<< "P","r","o","d","u","i","t"," ","c","o","r","r","e","c","t",",",
           " ","s","a","n","s"," ","p","l","u","s","."," ","F","a","i","t",
           " ","l","e"," ","t","r","a","v","a","i","l"," ","m","a","i","s",
           " ","r","i","e","n"," ","d","'","e","x","c","e","p","t","i","o",
           "n","n","e","l","."," ","P","r","i","x"," ","m","o","y","e","n",
           "." >>,
              3),
       Synthetic(<< "M","o","y","e","n",","," ","l","a"," ","q","u","a","l","i","t",
           "U+00E9"," ","p","o","u","r","r","a","i","t"," ","U+00EA","t","r","e"," ",
           "m","i","e","u","x","."," ","A","c","c","e","p","t","a","b","l",
           "e"," ","p","o","u","r"," ","l","e"," ","p","r","i","x"," ","m",
           "a","i","s"," ","s","a","n","s"," ","p","l","u","s","." >>,
              3),
       Synthetic(<< "U+00C7","a"," ","v","a",","," ","n","i"," ","b","o","n"," ","n","i",
           " ","m","a","u","v","a","i","s","."," ","R","U+00E9","p","o","n","d",
           " ","a","u","x"," ","b","e","s","o","i","n","s"," ","d","e"," ",
           "b","a","s","e","."," ","O","n"," ","t","r","o","u","v","e"," ",
           "m","i","e","u","x"," ","a","i","l","l","e","u","r","s","." >>,
              3),
       Synthetic(<< "C","o","r","r","e","c","t"," ","p","o","u","r"," ","d","U+00E9","p",
           "a","n","n","e","r","."," ","Q","u","a","l","i","t","U+00E9"," ","m",
           "o","y","e","n","n","e",","," ","s","e","r","v","i","c","e"," ",
           "c","l","i","e","n","t"," ","m","o","y","e","n","."," ","R","i",
           "e","n"," ","d","'","e","x","t","r","a","o","r","d","i","n","a",
           "i","r","e","." >>,
              3) >>

\* what the pipeline finds around it: the importable packages (deps), the
\* memory (is_low_resource_env), whether load_dataset returns, whether the
\* data directory can be written, and how far the work in the models
\* directory gets (mkdir raises, no file can be written, the training
\* raises, the test of the trained model raises, or all goes well)
Worlds ==
    [ datasets : BOOLEAN, pandas : BOOLEAN, pytorch_ml : BOOLEAN,
      low_resource : BOOLEAN, hf_load : { "raises", "ok" },
      data_writable : BOOLEAN,
      models : { "mkdir_raises", "read_only", "train_fails", "test_fails", "ok" } ]

\* the first n elements, list[:n] for n >= 0
Take(list, n) == SubSeq(list, 1, IF n < Len(list) THEN n ELSE Len(list))

\* the rows of the train split: a text and a label 0..4; the text of some
\* rows is blank
HfTrain ==
    [ k \in 1..HfSize |->
        [ text |-> IF k % 3 = 2 THEN <<" ">> ELSE Filler(k), label |-> (k - 1) % 5 ] ]

\* safe_json_dump(..., reviews_file) and the list it was given
Saved(data, calls, world) ==
    [ data |-> data, calls |-> calls,
      files |-> IF world.data_writable THEN { "data/amazon_reviews.json" } ELSE {} ]

\* create_synthetic_data: the list is saved and returned
SyntheticData(calls, world) ==
    Saved(create_synthetic_data, Append(calls, "create_synthetic_data"), world)

\* lines 23-58; limit is None or an int >= 0, and the split train[:None]
\* is refused by load_dataset
load_huggingface_data(limit, world) ==
    IF ~ world.datasets \/ ~ world.pandas
    THEN SyntheticData(<<"load_huggingface_data">>, world)
    ELSE IF limit = <<>> \/ world.hf_load = "raises"
    THEN SyntheticData(<<"load_huggingface_data", "load_dataset">>, world)
    ELSE LET rows == Take(HfTrain, limit[1])
         IN  Saved(SubSeq([ k \in 1..Len(rows) |->
                              [ review_text |-> Str(rows[k].text),
                                rating |-> Number("int", Tenths(rows[k].label + 1)),
                                source |-> <<"huggingface">> ] ], 1, Len(rows)),
                   <<"load_huggingface_data", "load_dataset">>, world)

\* lines 145-155
create_unified_dataset(use_huggingface, limit, world) ==
    IF use_huggingface /\ world.datasets
    THEN load_huggingface_data(limit, world)
    ELSE SyntheticData(<<>>, world)

\* TrainingEnvironmentDetector.detect_best_mode
detect_best_mode(world) ==
    IF ~ world.pytorch_ml
    THEN [ mode |-> "demo", reason |-> "PyTorch/Transformers non disponible" ]
    ELSE IF world.low_resource
    THEN [ mode |-> "light", reason |-> "Ressources limitees detectees" ]
    ELSE [ mode |-> "full", reason |-> "Environnement complet disponible" ]

\* the files of the simulated model and of the trained model
FakeModelFiles ==
    { "models/amazon_trained/config.json", "models/amazon_trained/demo_responses.json" }
TrainedModelFiles ==
    { "models/amazon_trained/model", "models/amazon_trained/training_metadata.json" }

\* safe_json_dump(training_pairs, training_file)
TrainingFile(world) ==
    IF world.data_writable THEN { "data/training_data.json" } ELSE {}

\* TrainingSimulator.simulate_training(data_limit), data_limit >= 0
simulate_training(data_limit, world) ==
    LET reviews == SyntheticData(<<"simulate_training">>, world)
        cut == Take(reviews.data, data_limit)
        training_data == prepare_training_data(cut)
        made == [ calls |-> reviews.calls \o <<"prepare_training_data", "_create_fake_model">>,
                  files |-> reviews.files \cup TrainingFile(world),
                  prepared |-> [ reviews_data |-> cut, training_pairs |-> training_data ] ]
    IN  IF world.models = "mkdir_raises"
        THEN made @@ [ result |-> FALSE ]
        ELSE [ made EXCEPT
                 !.calls = Append(@, "_test_fake_model"),
                 !.files = @ \cup (IF world.models = "read_only" THEN {}
                                   ELSE FakeModelFiles) ]
               @@ [ result |-> TRUE ]

\* the smaller of two integers
Min(a, b) == IF a < b THEN a ELSE b

\* "if force_mode:"
Truthy(force_mode) == force_mode # <<>> /\ force_mode[1] # ""

\* the exception e leaves the try block of lines 328-373
PipelineRaised(run, e) ==
    [ run EXCEPT !.results.details = @ @@ [ error |-> e ] ]

\* lines 363-365
PipelineTested(run, world) ==
    [ run EXCEPT
        !.calls = Append(@, "test_trained_model"),
        !.results.details = @ @@
            [ test_results |->
                IF world.models = "test_fails" \/ ~ world.pytorch_ml
                THEN [ error |-> "test failed" ]
                ELSE [ results |-> 3, model_path |-> "models/amazon_trained" ] ] ]

\* lines 337-340 and 360-365; min(data_limit, 15) raises a TypeError when
\* data_limit is None
PipelineDemo(run, data_limit, world, test_demo) ==
    IF data_limit = <<>> THEN PipelineRaised(run, "TypeError")
    ELSE LET sim == simulate_training(Min(data_limit[1], 15), world)
             done == [ run EXCEPT
                         !.results.success = sim.result,
                         !.results.details = @ @@ [ training_type |-> "simulation" ],
                         !.calls = @ \o sim.calls,
                         !.files = @ \cup sim.files,
                         !.prepared = sim.prepared,
                         !.simulated = << sim.result >> ]
         IN  IF sim.result /\ test_demo THEN PipelineTested(done, world) ELSE done

\* lines 342-365
PipelineTrain(run, mode, world) ==
    IF ~ world.data_writable
    THEN [ run EXCEPT !.results.success = FALSE,
                      !.calls = Append(@, "to_text_format") ]
    ELSE LET model_name == IF mode = "light" THEN "distilgpt2" ELSE "gpt2"
             trained == world.pytorch_ml /\ world.models \in { "test_fails", "ok" }
             done == [ run EXCEPT
                         !.results.success = trained,
                         !.results.details = @ @@
                             [ training_type |-> "pytorch",
                               model_name |-> model_name,
                               model_path |-> IF trained THEN <<"models/amazon_trained">>
                                              ELSE <<>> ],
                         !.calls = @ \o <<"to_text_format", "train_pytorch_model">>,
                         !.files = @ \cup { "data/training_text.txt" }
                                     \cup (IF trained THEN TrainedModelFiles ELSE {}) ]
         IN  IF trained THEN PipelineTested(done, world) ELSE done

\* run_complete_pipeline; first_success is the value results["success"]
\* starts with, test_demo tells whether a simulated model is tested too
PipelineRun(force_mode, use_huggingface, data_limit, world, first_success, test_demo) ==
    LET chosen == IF Truthy(force_mode)
                  THEN [ mode |-> force_mode[1], reason |-> "Mode force par utilisateur" ]
                  ELSE detect_best_mode(world)
        unified == create_unified_dataset(use_huggingface, data_limit, world)
        training_data == prepare_training_data(unified.data)
        run == [ results |->
                   [ mode |-> chosen.mode, reason |-> chosen.reason,
                     success |-> first_success,
                     details |->
                       [ data_samples |-> Len(training_data),
                         data_source |-> IF use_huggingface /\ world.datasets
                                         THEN "huggingface" ELSE "synthetic" ] ],
                 calls |-> <<"create_unified_dataset">> \o unified.calls
                             \o <<"prepare_training_data">>,
                 files |-> unified.files \cup TrainingFile(world),
                 dataset |-> unified.data,
                 prepared |-> [ reviews_data |-> unified.data,
                                training_pairs |-> training_data ],
                 simulated |-> <<>> ]
    IN  CASE chosen.mode = "demo" -> PipelineDemo(run, data_limit, world, test_demo)
          [] chosen.mode \in { "light", "full" } -> PipelineTrain(run, chosen.mode, world)
          [] OTHER -> PipelineRaised(run, "UnboundLocalError")

\* mutant of run_complete_pipeline: the model is tested after every
\* successful run, a simulated one too
run_complete_pipeline_tests_demo(force_mode, use_huggingface, data_limit, world) ==
    PipelineRun(force_mode, use_huggingface, data_limit, world, FALSE, TRUE)

\* mutant of run_complete_pipeline: the result starts as a success
run_complete_pipeline_optimistic(force_mode, use_huggingface, data_limit, world) ==
    PipelineRun(force_mode, use_huggingface, data_limit, world, TRUE, FALSE)

\* TrainingOrchestrator.run_complete_pipeline (epochs goes to the trainer
\* only)
run_complete_pipeline(force_mode, use_huggingface, data_limit, world) ==
    PipelineRun(force_mode, use_huggingface, data_limit, world, FALSE, FALSE)

\* force_mode: None, "", the three modes and a word that is not a mode
ForceModes == { <<>>, <<"">>, <<"demo">>, <<"light">>, <<"full">>, <<"auto">> }

\* data_limit: None or an int
DataLimits == { <<>>, <<0>>, <<2>>, <<16>>, <<100>> }

\* a call run_complete_pipeline(force_mode, use_huggingface, data_limit)
RunCompletePipeline ==
    /\ pc = "input"
    /\ \E world \in Worlds :
       \E run \in { run_complete_pipeline(pipeline.force_mode, pipeline.use_huggingface,
                                          pipeline.data_limit, world) } :
          /\ pipeline' = [ called |-> TRUE,
                           force_mode |-> pipeline.force_mode,
                           use_huggingface |-> pipeline.use_huggingface,
                           data_limit |-> pipeline.data_limit,
                           results |-> run.results,
                           calls |-> run.calls,
                           files |-> run.files,
                           dataset |-> run.dataset,
                           simulated |-> run.simulated ]
          /\ training' = [ reviews_data |-> run.prepared.reviews_data,
                           training_pairs |-> run.prepared.training_pairs,
                           training_file |-> IF "data/training_data.json" \in run.files
                                             THEN << run.prepared.training_pairs >>
                                             ELSE training.training_file ]
    /\ pc' = "done"
    /\ UNCHANGED <<env, http, seen, stopwords_fr, modelVars, reviewVars, replyVars>>

PipelineInit ==
    /\ pc = "input"
    /\ env = <<>>
    /\ stopwords_fr = BASIC_FRENCH_STOPWORDS
    /\ training = NoTraining
    /\ pipeline \in [ called : { FALSE }, force_mode : ForceModes,
                      use_huggingface : BOOLEAN, data_limit : DataLimits ]
    /\ seen = <<>>
    /\ request = NoRequest
    /\ processed = NoReview
    /\ recleaned = <<>>
    /\ debug = NoDebug
    /\ other = NoOther
    /\ reponse = NoReply
    /\ gen = NoGen
    /\ ModelUnloaded

PipelineNext == RunCompletePipeline

\* run_complete_pipeline called with every argument of the bounded sets
SpecPipeline == PipelineInit /\ [][PipelineNext]_vars

---------------------------------------------------------------------------
(* Claims about the text functions *)

Http == <<"h","t","t","p">>

C2_RatingOverridesText ==
    pc = "both" =>
        /\ request.note_numerique # <<>> =>
              /\ processed.sentiment = other.processed.sentiment
              /\ request.note_numerique = <<1>> => processed.sentiment = "negative"
        /\ (processed.sentiment # other.processed.sentiment) =>
              /\ request.note_numerique = <<>>
              /\ processed.cleaned_text # other.processed.cleaned_text

\* two reviews rated 1 whose texts the keyword classifier tells apart
C2_Witness ==
    /\ pc = "both"
    /\ request.note_numerique = <<1>>
    /\ request.texte # other.texte
    /\ analyze_sentiment_simple(processed.cleaned_text) = "positive"
    /\ analyze_sentiment_simple(other.processed.cleaned_text) = "neutral"
    /\ processed.sentiment = "negative"
    /\ other.processed.sentiment = "negative"

\* keyword k occurs in text t as a substring
OccursIn(k, t) ==
    \E i \in 1..Len(t) :
        /\ i + Len(k) - 1 <= Len(t)
        /\ \A j \in 1..Len(k) : t[i + j - 1] = k[j]

\* number of keywords of the set that occur in the lower-cased text
Hits(keywords, text) ==
    Cardinality({ k \in keywords : OccursIn(k, Lower(text)) })

HasEmoji(s) == \E i \in 1..Len(s) : s[i] \in EmojiChars

\* C4 as stated: the result of clean_text holds neither "http" nor a
\* character of the emoji ranges.
C4_NoHttpNoEmoji ==
    pc = "processed" =>
        /\ ~ Contains(Http, processed.cleaned_text)
        /\ ~ HasEmoji(processed.cleaned_text)

\* "http" that no non-whitespace character follows
BareHttp(s) ==
    \E i \in 1..Len(s) :
        /\ StartsWith(s, i, Http)
        /\ (i + Len(Http) > Len(s) \/ s[i + Len(Http)] \in Whitespace)

\* the letters h, t, t, p with only emoji or punctuation characters, and at
\* least one of them, in between
SeparatedHttp(s) ==
    \E i \in 1..Len(s) : \E j \in (i + Len(Http))..Len(s) :
        /\ s[i] = "h"
        /\ s[j] = "p"
        /\ \A k \in i..j : s[k] \in {"h", "t", "p"} \cup EmojiChars \cup Punctuation
        /\ RemovePunctuation(RemoveEmojis(SubSeq(s, i, j))) = Http

\* C4 amended: the result of clean_text holds no character of the emoji
\* ranges, and holds "http" only when the lower-cased input holds an "http"
\* that no non-whitespace character follows, or the letters h, t, t, p
\* separated only by emoji or punctuation characters; a text that is not a
\* str gives the empty string.
C4_NoEmojiHttpOnlyBareOrJoined ==
    pc = "processed" =>
        /\ ~ HasEmoji(processed.cleaned_text)
        /\ Contains(Http, processed.cleaned_text) =>
              \/ BareHttp(Lower(processed.original_text.chars))
              \/ SeparatedHttp(Lower(processed.original_text.chars))
        /\ processed.original_text.kind # "str" => processed.cleaned_text = <<>>

\* a text without "http" whose cleaned text holds "http"
C4_Witness ==
    /\ pc = "processed"
    /\ ~ Contains(Http, Lower(processed.original_text.chars))
    /\ SeparatedHttp(Lower(processed.original_text.chars))
    /\ Contains(Http, processed.cleaned_text)

\* C5 as stated: clean_text(clean_text(x)) = clean_text(x) for every x.
C5_Idempotent ==
    pc = "recleaned" => recleaned = processed.cleaned_text

HasUrl(s) == \E i \in 1..Len(s) : UrlMatchAt(s, i)

\* C5 amended: clean_text(clean_text(x)) = clean_text(x) for every x whose
\* cleaned text holds no "http" or "www" followed by a non-whitespace
\* character.
C5_IdempotentWithoutUrl ==
    (pc = "recleaned" /\ ~ HasUrl(processed.cleaned_text)) =>
        recleaned = processed.cleaned_text

\* a text the first pass changes and the second pass leaves alone
C5_Witness ==
    /\ pc = "recleaned"
    /\ processed.cleaned_text # <<>>
    /\ processed.cleaned_text # processed.original_text.chars
    /\ recleaned = processed.cleaned_text

\* C15: for every str input, with a non-empty stopword set, the result of
\* clean_text is a sequence of tokens separated by exactly one space, with
\* no leading or trailing whitespace; every token has more than 2
\* characters, is not a stopword, and is made only of the letters a-z, the
\* listed French accented letters and the digits 0-9.
C15_CleanedTokens ==
    (pc \in { "processed", "recleaned" } /\ request.texte.kind = "str"
        /\ stopwords_fr # {}) =>
        LET cleaned == processed.cleaned_text
            tokens == Split(cleaned)
        IN  /\ \A i \in 1..Len(cleaned) :
                  cleaned[i] \in LowerAscii \cup FrenchAccents \cup Digits \cup {" "}
            /\ cleaned # <<>> => (cleaned[1] # " " /\ cleaned[Len(cleaned)] # " ")
            /\ \A i \in 1..(Len(cleaned) - 1) : ~ (cleaned[i] = " " /\ cleaned[i + 1] = " ")
            /\ cleaned = Join(tokens)
            /\ \A k \in 1..Len(tokens) :
                  /\ Len(tokens[k]) > 2
                  /\ tokens[k] \notin stopwords_fr

\* a letter outside the kept class before an upper-case word: the letter
\* becomes a space that is trimmed, the word is lower-cased
C15_Witness ==
    /\ pc = "processed"
    /\ stopwords_fr # {}
    /\ request.texte = Str(<<"U+00F1", "T", "o", "p">>)
    /\ processed.cleaned_text = <<"t", "o", "p">>

\* the text of the review is None, the empty str or not a str
NoText == request.texte.kind # "str" \/ request.texte.chars = <<>>

---------------------------------------------------------------------------
(* Claims about the replies *)

Range(seq) == { seq[i] : i \in 1..Len(seq) }

\* the templates configured for a label
TemplatesOf(label) ==
    CASE label = Positive -> Range(POSITIVE)
      [] label = Negative -> Range(NEGATIVE)
      [] label = Neutral -> Range(NEUTRAL)

\* generer_reponse went to the templates without calling generate_ai_response
DirectFallback == gen.steps = <<"generate_fallback_response">>

\* C6: in fallback mode, for each of the labels positive, negative and
\* neutral, the reply is one of the 3 templates configured for that label,
\* never a template of another label, and has at least 20 characters.
C6_FallbackTemplateOfLabel ==
    (pc = "replied" /\ DirectFallback /\ gen.sentiment \in Labels) =>
        /\ reponse.source = "template"
        /\ Cardinality(TemplatesOf(gen.sentiment)) = 3
        /\ reponse.text \in TemplatesOf(gen.sentiment)
        /\ \A label \in Labels \ {gen.sentiment} : reponse.text \notin TemplatesOf(label)
        /\ Len(reponse.text) >= 20

\* a neutral review answered in fallback mode while the flag is off
C6_Witness ==
    /\ pc = "replied"
    /\ DirectFallback
    /\ ~ ENABLE_AI_MODEL
    /\ gen.sentiment = Neutral
    /\ reponse.text = NEUTRAL[3]

\* the model generated and decoded a text for this call
Decoded == gen.inference /\ ~ gen.raised

\* C7 as stated: in model mode the generated reply, prompt removed and
\* trimmed, is returned iff its length is within [15, 300] inclusive;
\* otherwise a fallback template is returned.
C7_LengthWindowInclusive ==
    (pc = "replied" /\ Decoded) =>
        (reponse.source = "model" <=>
            (Len(gen.response) >= 15 /\ Len(gen.response) <= 300))

\* C7 amended: in model mode the generated reply, prompt removed and
\* trimmed, is returned iff its length is strictly between 15 and 300 (16 to
\* 299 characters); otherwise it is discarded and a fallback template for
\* the label is returned.
C7_LengthWindowExclusive ==
    (pc = "replied" /\ Decoded) =>
        /\ reponse.source = "model" <=>
              (Len(gen.response) >= 16 /\ Len(gen.response) <= 299)
        /\ reponse.source = "model" => reponse.text = gen.response
        /\ reponse.source # "model" =>
              /\ reponse.source = "template"
              /\ gen.sentiment \in Labels => reponse.text \in TemplatesOf(gen.sentiment)

\* a generated reply of 299 characters is returned
C7_Witness ==
    /\ pc = "replied"
    /\ Decoded
    /\ Len(gen.response) = 299
    /\ reponse.source = "model"
    /\ reponse.text = gen.response

\* C8: generer_reponse runs model inference only when the flag
\* ENABLE_AI_MODEL is true and a model handle is loaded; in every other
\* state it goes directly to the templates.
C8_InferenceOnlyWhenEnabledAndLoaded ==
    pc = "replied" =>
        /\ gen.inference =>
              /\ ENABLE_AI_MODEL
              /\ tokenizer # <<>> /\ model # <<>> /\ gen_pipe # <<>>
        /\ ~ (ENABLE_AI_MODEL /\ tokenizer # <<>> /\ model # <<>>) =>
              /\ DirectFallback
              /\ reponse.source = "template"

\* model inference ran in a call
C8_Witness ==
    /\ pc = "replied"
    /\ gen.inference
    /\ ENABLE_AI_MODEL
    /\ gen_pipe = <<"gpt2">>

\* the start-up loaded the trained Amazon model
TrainedModelLoaded ==
    /\ ENABLE_AI_MODEL
    /\ ai_loaded
    /\ tokenizer = <<TRAINED_MODEL>>
    /\ model = <<TRAINED_MODEL>>

\* C9: when the flag is true and the trained model of ./models/amazon_trained
\* loaded, the calls of generer_reponse that follow use it: they attempt
\* the generation through generate_ai_response.
C9_TrainedModelIsUsed ==
    (pc = "replied" /\ TrainedModelLoaded) =>
        /\ gen.steps # <<>>
        /\ gen.steps[1] = "generate_ai_response"
        /\ gen.inference

\* C10: an exception raised while the model tokenises, generates or
\* decodes, or a failed model load, never reaches the caller of
\* generer_reponse: the call returns a fallback template for the label.
C10_FailuresGiveTemplate ==
    pc = "replied" =>
        /\ reponse.source \in {"template", "model"}
        /\ (gen.raised \/ (ENABLE_AI_MODEL /\ ~ ai_loaded)) =>
              /\ reponse.source = "template"
              /\ gen.sentiment \in Labels => reponse.text \in TemplatesOf(gen.sentiment)

\* the decoding raised and the caller got a template
C10_Witness ==
    /\ pc = "replied"
    /\ gen.raised
    /\ gen.steps[2] = "decode_raises"
    /\ gen.sentiment = Positive
    /\ reponse.text \in Range(POSITIVE)

---------------------------------------------------------------------------
(* Claims about the course of a call and of a request *)

\* generer_reponse was called and has returned
Answered == pc \in { "replied", "analysed" } /\ gen.steps # <<>>

\* the state of the response state machine a step of the call leads to
StateAfter(step) ==
    CASE step = "generate_ai_response" -> "NOT_ATTEMPTED"
      [] step \in { "encode_raises", "generate_raises", "decode_raises", "decoded" } ->
            "MODEL_TRIED"
      [] step \in { "except", "rejected" } -> "MODEL_FAILED"
      [] step = "return" -> "MODEL_SUCCESS"
      [] OTHER -> "FALLBACK"

\* the states a call went through, a state named once while the call stays in it
RECURSIVE StatesFrom(_, _, _)
StatesFrom(steps, k, last) ==
    IF k > Len(steps) THEN <<>>
    ELSE LET next == StateAfter(steps[k])
         IN  IF next = last THEN StatesFrom(steps, k + 1, last)
             ELSE <<next>> \o StatesFrom(steps, k + 1, next)

ResponsePath(steps) == <<"NOT_ATTEMPTED">> \o StatesFrom(steps, 1, "NOT_ATTEMPTED")

\* model mode: the flag is on and a pipeline is loaded
ModelMode == ENABLE_AI_MODEL /\ gen_pipe # <<>>

\* C11: every call of generer_reponse returns, and goes NOT_ATTEMPTED ->
\* MODEL_TRIED -> MODEL_SUCCESS, or NOT_ATTEMPTED -> MODEL_TRIED ->
\* MODEL_FAILED -> FALLBACK, or straight from NOT_ATTEMPTED to FALLBACK when
\* model mode is not enabled; no other course is taken and the call ends
\* with a non-empty string.
C11_ResponseStateMachine ==
    /\ pc = "ready" => ENABLED GenererReponse
    /\ Answered =>
          /\ ResponsePath(gen.steps) \in
                { <<"NOT_ATTEMPTED", "MODEL_TRIED", "MODEL_SUCCESS">>,
                  <<"NOT_ATTEMPTED", "MODEL_TRIED", "MODEL_FAILED", "FALLBACK">>,
                  <<"NOT_ATTEMPTED", "FALLBACK">> }
          /\ ResponsePath(gen.steps) = <<"NOT_ATTEMPTED", "FALLBACK">> <=> ~ ModelMode
          /\ reponse.source \in { "template", "model" }
          /\ Len(reponse.text) > 0
          /\ reponse.source = "model" <=>
                ResponsePath(gen.steps)[Len(ResponsePath(gen.steps))] = "MODEL_SUCCESS"

\* the generation raised, and the call went through MODEL_FAILED to a template
C11_Witness ==
    /\ pc = "replied"
    /\ ModelMode
    /\ gen.steps[2] = "generate_raises"
    /\ ResponsePath(gen.steps) =
          <<"NOT_ATTEMPTED", "MODEL_TRIED", "MODEL_FAILED", "FALLBACK">>
    /\ reponse.source = "template"

\* the handler of /analyse returned a response to the caller
Analysed == pc = "analysed" /\ http.status = 200

\* C12: the confidence of the /analyse handler is "tres elevee" whenever a
\* rating is provided, even when the cleaned text has fewer than 10
\* characters; without a rating it is "faible" iff the cleaned text has
\* fewer than 10 characters, and "elevee" otherwise.
C12_Confidence ==
    Analysed =>
        LET body == http.body[1]
        IN  /\ body.texte_nettoye = processed.cleaned_text
            /\ request.note_numerique # <<>> => body.confiance = "tres elevee"
            /\ request.note_numerique = <<>> =>
                  /\ body.confiance = "faible" <=> Len(body.texte_nettoye) < 10
                  /\ body.confiance = "elevee" <=> Len(body.texte_nettoye) >= 10

\* a rated review whose cleaned text is empty gets the highest confidence
C12_Witness ==
    /\ Analysed
    /\ request.note_numerique = <<3>>
    /\ http.body[1].texte_nettoye = <<>>
    /\ http.body[1].confiance = "tres elevee"

\* a step of the try block of the handler raised
Raised == pc = "analysed" /\ http.log # ""

\* C13: if a step of the /analyse pipeline (process_review, generer_reponse,
\* the construction of the response) raises, the caller receives only an
\* HTTP 500 error with one fixed message that holds no text of the
\* exception, and no sentiment, reply, cleaned text or confidence.
C13_GenericInternalError ==
    /\ Raised =>
          /\ http.status = 500
          /\ http.detail = ERROR_DETAIL
          /\ http.detail # http.log
          /\ http.body = <<>>
    /\ (pc = "analysed" /\ ~ Raised) =>
          /\ http.status = 200
          /\ http.detail = ""
          /\ Len(http.body) = 1

\* generer_reponse raised after process_review had returned its result;
\* the caller gets the 500 response without that result
C13_Witness ==
    /\ Raised
    /\ http.log = ExceptionText("generer_reponse")
    /\ processed.sentiment = "negative"
    /\ http.status = 500
    /\ http.body = <<>>

\* C14: for each of the labels positive, negative and neutral,
\* generer_reponse returns a reply of more than 20 characters, in fallback
\* mode and in model mode.
C14_ReplyLongerThanTwenty ==
    (Answered /\ gen.sentiment \in Labels) => Len(reponse.text) > 20

---------------------------------------------------------------------------
(* Claims about the configuration and the process-wide state *)

AllTemplates == Range(POSITIVE) \cup Range(NEGATIVE) \cup Range(NEUTRAL)

\* the environment variable ENABLE_AI_MODEL is unset, or its value is none
\* of 1, true, yes in any case
FlagNotRequested ==
    \/ env = <<>>
    \/ Lower(env[1]) \notin { <<"1">>, <<"t","r","u","e">>, <<"y","e","s">> }

\* C17: when the environment variable ENABLE_AI_MODEL is unset or has a
\* value other than 1, true, yes (in any case), the flag is false,
\* load_ai_model attempts no load and leaves tokenizer, model and gen_pipe
\* None, and every result of generer_reponse is one of the fixed templates.
C17_FlagOffMeansTemplates ==
    /\ \A v \in { <<"0">>, <<"f","a","l","s","e">>, <<"o","n">>, <<>>, <<"y">>,
                   <<" ","t","r","u","e">>, <<"2">>, <<"o","u","i">> } :
          ~ EnableAiModelFrom(<<v>>)
    /\ ~ EnableAiModelFrom(<<>>)
    /\ FlagNotRequested =>
          /\ ~ ENABLE_AI_MODEL
          /\ attempts = <<>>
          /\ tokenizer = <<>> /\ model = <<>> /\ gen_pipe = <<>>
          /\ ~ ai_loaded
          /\ Answered =>
                /\ DirectFallback
                /\ reponse.source = "template"
                /\ reponse.text \in AllTemplates

\* the variable is set to a word that is not in the list; a request is
\* answered with a template
C17_Witness ==
    /\ env = << <<"o","n">> >>
    /\ pc = "analysed"
    /\ Answered
    /\ ~ ENABLE_AI_MODEL
    /\ reponse.text \in Range(NEGATIVE)

\* the process has finished its imports and serves calls and requests
Serving == pc \in { "ready", "replied", "analysed", "health" }

\* C18: after start-up no request-handling operation (process_review,
\* generer_reponse, generate_ai_response, generate_fallback_response, the
\* /analyse handler) changes the model handle (tokenizer, model, gen_pipe),
\* the stopword set or the configuration flag (the templates are constants
\* of the module); the model load runs at most once per process, at
\* start-up, and never during a request.
C18_NoChangeAfterStartup ==
    [][ /\ Serving =>
              /\ Serving'
              /\ UNCHANGED <<tokenizer, model, gen_pipe, ai_loaded, attempts,
                             stopwords_fr, ENABLE_AI_MODEL, env>>
        /\ <<tokenizer, model, gen_pipe, ai_loaded, attempts>>'
              # <<tokenizer, model, gen_pipe, ai_loaded, attempts>> =>
              /\ pc = "settings" /\ pc' = "model"
              /\ attempts = <<>> /\ tokenizer = <<>> /\ model = <<>> /\ gen_pipe = <<>>
        /\ pc' = "settings" => pc = "start" ]_vars

\* a request was answered by the loaded model, which is still in place
C18_Witness ==
    /\ pc = "analysed"
    /\ http.status = 200
    /\ gen.inference
    /\ reponse.source = "model"
    /\ gen_pipe = <<"distilgpt2">>
    /\ attempts = <<"distilgpt2">>

\* how many steps of a call are in a set
Count(steps, set) == Cardinality({ k \in 1..Len(steps) : steps[k] \in set })

\* the steps in which the model is asked for a text
GenerationSteps == { "encode_raises", "generate_raises", "decode_raises", "decoded" }

\* the candidates of load_ai_model
Candidates == { TRAINED_MODEL } \cup Range(FALLBACK_MODELS)

\* C19: nothing is retried: within one call the model generation is invoked
\* at most once, and after its failure the template fallback is taken
\* exactly once; at start-up each candidate model (the trained model, then
\* each entry of FALLBACK_MODELS) is load-attempted at most once.
C19_NoRetry ==
    /\ Answered =>
          /\ Count(gen.steps, GenerationSteps) <= 1
          /\ Count(gen.steps, { "generate_fallback_response" }) <= 1
          /\ Count(gen.steps, { "except", "rejected" }) <= 1
          /\ Count(gen.steps, { "except", "rejected" }) = 1 =>
                /\ Count(gen.steps, { "generate_fallback_response" }) = 1
                /\ gen.steps[Len(gen.steps)] = "generate_fallback_response"
                /\ reponse.source = "template"
    /\ \A name \in Candidates : Count(attempts, { name }) <= 1
    /\ Range(attempts) \subseteq Candidates

\* two loads failed at start-up before gpt2 loaded; in a call the generation
\* raised once and one template was returned
C19_Witness ==
    /\ pc = "replied"
    /\ attempts = << TRAINED_MODEL, "distilgpt2", "gpt2" >>
    /\ gen_pipe = <<"gpt2">>
    /\ gen.steps = << "generate_ai_response", "generate_raises", "except",
                      "generate_fallback_response" >>
    /\ reponse.source = "template"

---------------------------------------------------------------------------
(* Claims about the training data *)

\* the text of the review is a str of trimmed length 1 to 2000 and its
\* rating is a number from 1 to 5
Eligible(review) ==
    /\ review.review_text.kind = "str"
    /\ Len(Strip(review.review_text.chars)) >= 1
    /\ Len(Strip(review.review_text.chars)) <= 2000
    /\ review.rating.kind \in { "int", "float" }
    /\ review.rating.tenths >= 10
    /\ review.rating.tenths <= 50

---------------------------------------------------------------------------
(* Claims about the load of the model *)

\* load_ai_model has returned
LoadDone == pc \notin { "start", "settings" }

\* the orders in which load_ai_model may have tried its candidates: the
\* trained model, when it is tried, and then the first entries of
\* FALLBACK_MODELS
CandidateOrders ==
    { first \o SubSeq(FALLBACK_MODELS, 1, k) :
          first \in { <<>>, <<TRAINED_MODEL>> }, k \in 0..Len(FALLBACK_MODELS) }

\* the handles are what a successful load of the candidate leaves: the
\* tokenizer and the model, and for a pretrained model the pipeline
LoadedFrom(name) ==
    /\ tokenizer = <<name>>
    /\ model = <<name>>
    /\ name # TRAINED_MODEL => gen_pipe = <<name>>

\* C23: load_ai_model, when the flag is enabled, tries the trained Amazon
\* model first and then the entries of FALLBACK_MODELS in their listed
\* order, stops at the first candidate that loads, never attempts a later
\* candidate after a success, and returns True iff some candidate loaded
\* (the last one it tried).
C23_LoadOrder ==
    /\ ~ LoadDone => attempts = <<>>
    /\ LoadDone =>
          /\ attempts \in CandidateOrders
          /\ ~ ENABLE_AI_MODEL => (attempts = <<>> /\ ~ ai_loaded)
          /\ ai_loaded <=> (attempts # <<>> /\ LoadedFrom(attempts[Len(attempts)]))
          /\ (~ ai_loaded /\ attempts # <<>>) =>
                /\ Len(attempts) >= Len(FALLBACK_MODELS)
                /\ attempts[Len(attempts)] = FALLBACK_MODELS[Len(FALLBACK_MODELS)]
                /\ gen_pipe = <<>>

\* the trained model and distilgpt2 failed to load, gpt2 loaded and the
\* third pretrained model was not tried
C23_Witness ==
    /\ pc = "model"
    /\ ENABLE_AI_MODEL
    /\ ai_loaded
    /\ attempts = << TRAINED_MODEL, "distilgpt2", "gpt2" >>
    /\ LoadedFrom("gpt2")

\* C27: in every reachable state gen_pipe is set only if tokenizer and
\* model are set and the three come from the same successful load attempt
\* of one model name, the last one tried; generer_reponse runs the model
\* inference only in such states, so that a tokenizer or a model left by a
\* failed load attempt is never used for a generation.
C27_HandlesOfOneLoad ==
    /\ gen_pipe # <<>> =>
          /\ tokenizer = gen_pipe
          /\ model = gen_pipe
          /\ attempts # <<>>
          /\ attempts[Len(attempts)] = gen_pipe[1]
          /\ ai_loaded
    /\ (Answered /\ gen.inference) =>
          /\ gen_pipe # <<>>
          /\ tokenizer = gen_pipe
          /\ model = gen_pipe

\* the load of the trained model left its tokenizer, the first pretrained
\* model loaded after it, and a call was answered by this model
C27_Witness ==
    /\ pc = "replied"
    /\ attempts = << TRAINED_MODEL, "distilgpt2" >>
    /\ gen_pipe = <<"distilgpt2">>
    /\ tokenizer = <<"distilgpt2">>
    /\ gen.inference
    /\ reponse.source = "model"

\* C28: GET /health reports the mode "ai" only when the model mode can
\* serve requests (the flag is on and a model handle is loaded, so that
\* generer_reponse attempts a generation); whenever every response comes
\* from the fallback templates it reports "fallback".
C28_HealthReportsServingMode ==
    pc = "health" =>
        /\ http.body[1].mode = "ai" => ModelMode
        /\ ~ ModelMode => http.body[1].mode = "fallback"

---------------------------------------------------------------------------
(* Claims about the keywords and the two rating rules *)

\* C24: a text that consists of exactly one keyword is classified on the
\* side of that keyword: analyze_sentiment_simple(k) is positive for every
\* keyword k of the positive set and negative for every keyword k of the
\* negative set.
C24_KeywordOnItsSide ==
    pc = "debugged" =>
        /\ debug.original \in positive_keywords => debug.sentiment_simple = "positive"
        /\ debug.original \in negative_keywords => debug.sentiment_simple = "negative"

\* C25: the rule that labels the training data by rating
\* (prepare_training_data) agrees with the rule of the API pipeline
\* (label_sentiment): for every rating in 1..5 both give the same label.
C25_RatingRulesAgree ==
    pc = "prepared" =>
        \A k \in 1..Len(training.training_pairs) :
            LET pair == training.training_pairs[k]
            IN  (pair.rating.kind = "int"
                    /\ pair.rating.tenths \in { Tenths(n) : n \in MinRating..MaxRating }) =>
                    pair.sentiment = label_sentiment(pair.rating.tenths \div 10)

---------------------------------------------------------------------------
(* Claims about successive requests *)

\* the request under processing has the text of the kept analysis
SameTextAgain ==
    /\ pc = "analysed"
    /\ http.status = 200
    /\ seen # <<>>
    /\ request.texte = seen[1].texte

\* C30: the processing of a request is deterministic and independent of
\* the other requests, except for the text of the reply: for the same
\* (text, rating), in any interleaving with other requests, process_review
\* returns the same cleaned_text and sentiment and the handler the same
\* confidence; cleaned_text does not depend on the rating.
C30_SameRequestSameAnalysis ==
    SameTextAgain =>
        /\ processed.cleaned_text = seen[1].texte_nettoye
        /\ http.body[1].texte_nettoye = seen[1].texte_nettoye
        /\ request.note_numerique = seen[1].note_numerique =>
              /\ processed.sentiment = seen[1].sentiment
              /\ http.body[1].sentiment = seen[1].sentiment
              /\ http.body[1].confiance = seen[1].confiance

\* a text was analysed without a rating, then, after other requests or
\* none, with 1 star: the cleaned text is the same, the sentiment is not
C30_Witness ==
    /\ SameTextAgain
    /\ request.texte = Str(<<"B","i","e","n">>)
    /\ stopwords_fr = NLTK_FRENCH_STOPWORDS
    /\ seen[1].note_numerique = <<>>
    /\ request.note_numerique = <<1>>
    /\ seen[1].sentiment = "positive"
    /\ processed.sentiment = "negative"
    /\ processed.cleaned_text = <<"b","i","e","n">>

---------------------------------------------------------------------------
(* Claims about the training pipeline *)

\* run_complete_pipeline has returned
PipelineDone == pc = "done" /\ pipeline.called

\* C21: the sample limit (--limit, data_limit) bounds the number of
\* samples: after run_complete_pipeline(data_limit = n) the number of
\* prepared training samples in details.data_samples is at most n,
\* whichever data source (Hugging Face or synthetic) was used.
C21_LimitBoundsSamples ==
    (PipelineDone /\ pipeline.data_limit # <<>>) =>
        pipeline.results.details.data_samples <= pipeline.data_limit[1]

\* the functions a run has called
Called(name) == \E k \in 1..Len(pipeline.calls) : pipeline.calls[k] = name

\* C22: run_complete_pipeline with force_mode = "demo" returns a result
\* whose mode is "demo" and whose success is the outcome of the training
\* simulation (true when the data preparation and the files of the fake
\* model succeed; false when the simulation could not be started); in this
\* mode the real training (train_pytorch_model) and test_trained_model are
\* never invoked.
C22_DemoPipeline ==
    (PipelineDone /\ pipeline.force_mode = <<"demo">>) =>
        /\ pipeline.results.mode = "demo"
        /\ ~ Called("train_pytorch_model")
        /\ ~ Called("test_trained_model")
        /\ ~ Called("to_text_format")
        /\ pipeline.simulated # <<>> =>
              /\ Called("simulate_training")
              /\ pipeline.results.success = pipeline.simulated[1]
              /\ pipeline.results.details.training_type = "simulation"
        /\ pipeline.simulated = <<>> =>
              /\ ~ Called("simulate_training")
              /\ pipeline.results.success = FALSE
        /\ FakeModelFiles \subseteq pipeline.files => pipeline.results.success = TRUE

\* a demo run with the limit 2: the simulation prepared two pairs, wrote
\* the fake model and succeeded
C22_Witness ==
    /\ PipelineDone
    /\ pipeline.force_mode = <<"demo">>
    /\ pipeline.data_limit = <<2>>
    /\ pipeline.simulated = <<TRUE>>
    /\ pipeline.results.success = TRUE
    /\ FakeModelFiles \subseteq pipeline.files
    /\ Len(training.training_pairs) = 2

\* C26: the data source reported by run_complete_pipeline is the source of
\* the data used: details.data_source is "huggingface" only when the
\* reviews were loaded from Hugging Face, and "synthetic" whenever the
\* dataset returned by create_unified_dataset is the synthetic fallback
\* (also when load_huggingface_data fell back because pandas is missing or
\* the loading raised).
C26_ReportedSourceIsUsedSource ==
    PipelineDone =>
        /\ pipeline.results.details.data_source = "huggingface" =>
              /\ ~ Called("create_synthetic_data")
              /\ \A k \in 1..Len(pipeline.dataset) :
                    pipeline.dataset[k].source = <<"huggingface">>
        /\ pipeline.dataset = create_synthetic_data =>
              pipeline.results.details.data_source = "synthetic"

\* the modes of the pipeline
PipelineModes == { "demo", "light", "full" }

\* C29: run_complete_pipeline with any force_mode value returns a result
\* record with the keys mode, reason, success and details without raising;
\* when a step raises or the mode is none of demo, light and full, success
\* is False (never left True or unset) and no model test is run.
C29_PipelineAlwaysReturns ==
    PipelineDone =>
        /\ DOMAIN pipeline.results = { "mode", "reason", "success", "details" }
        /\ pipeline.results.success \in BOOLEAN
        /\ pipeline.results.mode \notin PipelineModes =>
              "error" \in DOMAIN pipeline.results.details
        /\ "error" \in DOMAIN pipeline.results.details =>
              /\ pipeline.results.success = FALSE
              /\ ~ Called("test_trained_model")
        /\ Called("test_trained_model") =>
              /\ pipeline.results.success = TRUE
              /\ pipeline.results.mode \in PipelineModes \ { "demo" }

\* force_mode is "auto", which is no mode: the data were prepared, the
\* assignment of the result raised and the record says failure
C29_Witness ==
    /\ PipelineDone
    /\ pipeline.force_mode = <<"auto">>
    /\ pipeline.results.mode = "auto"
    /\ pipeline.results.details.data_samples = 16
    /\ pipeline.results.details.error = "UnboundLocalError"
    /\ pipeline.results.success = FALSE

====
